---- MODULE Spec2Model ----
(***************************************************************************)
(* A model of the SEA envelope subsystem (src/unnamed/part_001) and of the *)
(* checklist format: Lexer, Tokenizer and Parser (src/unnamed/part_002,    *)
(* src/src/format/tokens.ts, src/unnamed/part_004).                        *)
(*                                                                         *)
(* Bytes are the integers 0..255 and a Buffer is a sequence of bytes.  A   *)
(* JavaScript string is a sequence of UTF-16 code units (0..65535), so     *)
(* that the string <-> Buffer conversions the code performs ("utf-8",      *)
(* "base64") are computed, not assumed to be inverse to each other.        *)
(* The Node crypto primitives (RSA, AES-128-CBC, SHA-256) are idealised:   *)
(* they are library code, modelled by what the protocol relies on.         *)
(***************************************************************************)
EXTENDS Integers, Sequences, FiniteSets, TLC

VARIABLES
  fs,        \* the files: path -> bytes
  dirs,      \* number of staging directories created so far
  enc,       \* the encryptFile call: its position and local variables
  dec,       \* the decryptFile call: its position and local variables
  sent,      \* history: the (sender, recipient, plaintext) given to encryptFile
  oracle,    \* the blobs returned by RSA operations so far
  tampered,  \* what was done to the envelope after encryptFile, and where
  issued,    \* history: the documents whose digest a key holder has signed
  prim,      \* the last call of a string primitive and its result
  calls,     \* the concurrent calls of encryptFile and decryptFile
  parser,    \* the Parser.parse call: its position and its State
  lexer      \* the Lexer.lex call: its position, data, state and tokens

vars == <<fs, dirs, enc, dec, sent, oracle, tampered, issued, prim, calls,
          parser, lexer>>

(***************************************************************************)
(* Bounds of the model.                                                    *)
(***************************************************************************)
\* Bytes of an AES key, of an iv and of a cipher block (16 in the program).
AesLen == 4
\* Bytes of a digest (32 in the program).
DigestLen == 2
\* Number of key pairs in existence.
NumKeys == 2

KeyIds == 1..NumKeys

Min(a, b) == IF a < b THEN a ELSE b

\* b[from..to], 1-indexed and clipped to the sequence.
Slice(b, from, to) ==
  IF to < from THEN <<>> ELSE SubSeq(b, from, Min(to, Len(b)))

(***************************************************************************)
(* Buffer.toString("utf-8"): decoding replaces every maximal ill-formed    *)
(* subsequence by U+FFFD; a code point above U+FFFF becomes a surrogate    *)
(* pair of code units.                                                     *)
(***************************************************************************)
ReplacementChar == 65533

\* Continuation bytes a lead byte announces; -1 for a byte that cannot lead.
Utf8Need(b0) ==
  IF b0 < 128 THEN 0
  ELSE IF b0 >= 194 /\ b0 <= 223 THEN 1
  ELSE IF b0 >= 224 /\ b0 <= 239 THEN 2
  ELSE IF b0 >= 240 /\ b0 <= 244 THEN 3
  ELSE -1

\* The range allowed for the byte that follows lead byte b0.
Utf8SecondLow(b0) == IF b0 = 224 THEN 160 ELSE IF b0 = 240 THEN 144 ELSE 128
Utf8SecondHigh(b0) == IF b0 = 237 THEN 159 ELSE IF b0 = 244 THEN 143 ELSE 191

\* Whether b[i + k] is an acceptable k-th continuation byte of the lead b[i].
Utf8ContOk(b, i, k) ==
  /\ i + k <= Len(b)
  /\ IF k = 1
       THEN b[i + k] >= Utf8SecondLow(b[i]) /\ b[i + k] <= Utf8SecondHigh(b[i])
       ELSE b[i + k] >= 128 /\ b[i + k] <= 191

\* Number of acceptable continuation bytes actually present after b[i].
Utf8Have(b, i) ==
  LET need == Utf8Need(b[i])
  IN  IF need >= 1 /\ Utf8ContOk(b, i, 1)
        THEN IF need >= 2 /\ Utf8ContOk(b, i, 2)
               THEN IF need >= 3 /\ Utf8ContOk(b, i, 3) THEN 3 ELSE 2
               ELSE 1
        ELSE 0

\* The code point of the well-formed sequence of n + 1 bytes at b[i].
Utf8CodePoint(b, i, n) ==
  IF n = 0 THEN b[i]
  ELSE IF n = 1 THEN (b[i] - 192) * 64 + (b[i + 1] - 128)
  ELSE IF n = 2
    THEN (b[i] - 224) * 4096 + (b[i + 1] - 128) * 64 + (b[i + 2] - 128)
  ELSE (b[i] - 240) * 262144 + (b[i + 1] - 128) * 4096
         + (b[i + 2] - 128) * 64 + (b[i + 3] - 128)

\* The UTF-16 code units of a code point.
CodeUnits(cp) ==
  IF cp < 65536 THEN <<cp>>
  ELSE <<55296 + ((cp - 65536) \div 1024), 56320 + ((cp - 65536) % 1024)>>

RECURSIVE Utf8DecodeFrom(_, _)
Utf8DecodeFrom(b, i) ==
  IF i > Len(b) THEN <<>>
  ELSE LET need == Utf8Need(b[i])
           have == Utf8Have(b, i)
       IN  IF need = -1 THEN <<ReplacementChar>> \o Utf8DecodeFrom(b, i + 1)
           ELSE IF have = need
             THEN CodeUnits(Utf8CodePoint(b, i, need))
                    \o Utf8DecodeFrom(b, i + 1 + need)
           ELSE <<ReplacementChar>> \o Utf8DecodeFrom(b, i + 1 + have)

ToStringUtf8(buf) == Utf8DecodeFrom(buf, 1)

(***************************************************************************)
(* Buffer.from(str, "utf-8"): a surrogate pair is encoded as one code      *)
(* point, an unpaired surrogate as U+FFFD (EF BF BD).                      *)
(***************************************************************************)
IsHighSurrogate(u) == u >= 55296 /\ u <= 56319
IsLowSurrogate(u) == u >= 56320 /\ u <= 57343

Utf8Bytes(cp) ==
  IF cp < 128 THEN <<cp>>
  ELSE IF cp < 2048 THEN <<192 + (cp \div 64), 128 + (cp % 64)>>
  ELSE IF cp < 65536
    THEN <<224 + (cp \div 4096), 128 + ((cp \div 64) % 64), 128 + (cp % 64)>>
  ELSE <<240 + (cp \div 262144), 128 + ((cp \div 4096) % 64),
         128 + ((cp \div 64) % 64), 128 + (cp % 64)>>

RECURSIVE Utf8EncodeFrom(_, _)
Utf8EncodeFrom(s, i) ==
  IF i > Len(s) THEN <<>>
  ELSE IF IsHighSurrogate(s[i]) /\ i < Len(s) /\ IsLowSurrogate(s[i + 1])
    THEN Utf8Bytes(65536 + (s[i] - 55296) * 1024 + (s[i + 1] - 56320))
           \o Utf8EncodeFrom(s, i + 2)
  ELSE IF IsHighSurrogate(s[i]) \/ IsLowSurrogate(s[i])
    THEN Utf8Bytes(ReplacementChar) \o Utf8EncodeFrom(s, i + 1)
  ELSE Utf8Bytes(s[i]) \o Utf8EncodeFrom(s, i + 1)

BufferFromUtf8(str) == Utf8EncodeFrom(str, 1)

(***************************************************************************)
(* Buffer.toString("base64") and Buffer.from(str, "base64").               *)
(***************************************************************************)
PadChar == 61

\* The character (code unit) of a 6-bit value.
B64Char(v) ==
  IF v < 26 THEN 65 + v
  ELSE IF v < 52 THEN 97 + (v - 26)
  ELSE IF v < 62 THEN 48 + (v - 52)
  ELSE IF v = 62 THEN 43 ELSE 47

\* The 6-bit value of a character; -1 for a character outside the alphabet.
\* The decoder also accepts the URL-safe '-' and '_'.
B64Value(c) ==
  IF c >= 65 /\ c <= 90 THEN c - 65
  ELSE IF c >= 97 /\ c <= 122 THEN c - 97 + 26
  ELSE IF c >= 48 /\ c <= 57 THEN c - 48 + 52
  ELSE IF c = 43 \/ c = 45 THEN 62
  ELSE IF c = 47 \/ c = 95 THEN 63
  ELSE -1

RECURSIVE B64EncodeFrom(_, _)
B64EncodeFrom(b, i) ==
  LET left == Len(b) - i + 1
  IN  IF left <= 0 THEN <<>>
      ELSE IF left = 1
        THEN <<B64Char(b[i] \div 4), B64Char((b[i] % 4) * 16), PadChar, PadChar>>
      ELSE IF left = 2
        THEN <<B64Char(b[i] \div 4),
               B64Char((b[i] % 4) * 16 + (b[i + 1] \div 16)),
               B64Char((b[i + 1] % 16) * 4), PadChar>>
      ELSE <<B64Char(b[i] \div 4),
             B64Char((b[i] % 4) * 16 + (b[i + 1] \div 16)),
             B64Char((b[i + 1] % 16) * 4 + (b[i + 2] \div 64)),
             B64Char(b[i + 2] % 64)>> \o B64EncodeFrom(b, i + 3)

ToStringBase64(buf) == B64EncodeFrom(buf, 1)

\* The 6-bit values of the characters before the first '=', the characters
\* outside the alphabet skipped (the decoder is lenient and never throws).
RECURSIVE B64Sextets(_, _)
B64Sextets(s, i) ==
  IF i > Len(s) \/ s[i] = PadChar THEN <<>>
  ELSE IF B64Value(s[i]) = -1 THEN B64Sextets(s, i + 1)
  ELSE <<B64Value(s[i])>> \o B64Sextets(s, i + 1)

RECURSIVE B64DecodeFrom(_, _)
B64DecodeFrom(v, i) ==
  LET left == Len(v) - i + 1
  IN  IF left <= 1 THEN <<>>
      ELSE IF left = 2 THEN <<v[i] * 4 + (v[i + 1] \div 16)>>
      ELSE IF left = 3
        THEN <<v[i] * 4 + (v[i + 1] \div 16),
               (v[i + 1] % 16) * 16 + (v[i + 2] \div 4)>>
      ELSE <<v[i] * 4 + (v[i + 1] \div 16),
             (v[i + 1] % 16) * 16 + (v[i + 2] \div 4),
             (v[i + 2] % 4) * 64 + v[i + 3]>> \o B64DecodeFrom(v, i + 4)

BufferFromBase64(str) == B64DecodeFrom(B64Sextets(str, 1), 1)

(***************************************************************************)
(* The 4-byte header fields.  A JavaScript number n in 0..2^32-1 is kept   *)
(* as its two 16-bit halves [hi, lo] (n = hi * 65536 + lo), so that the    *)
(* whole unsigned range is representable.                                  *)
(***************************************************************************)
Num(n) == [hi |-> n \div 65536, lo |-> n % 65536]

\* toInt32: DataView.setUint32(0, num, false), big-endian.
toInt32(num) ==
  <<num.hi \div 256, num.hi % 256, num.lo \div 256, num.lo % 256>>

\* Buffer.readInt32BE(): the four bytes as a signed two's complement value.
readInt32BE(buf) ==
  (IF buf[1] >= 128 THEN buf[1] - 256 ELSE buf[1]) * 16777216
    + buf[2] * 65536 + buf[3] * 256 + buf[4]

(***************************************************************************)
(* RSA, idealised.  A key pair is [pub |-> k, priv |-> k] with k in KeyIds;*)
(* any other value is not a key and makes the primitive throw.  The output *)
(* of a private-key or public-key operation is the message behind a tag    *)
(* byte naming the operation and the key.  oracle is the set of all blobs  *)
(* the RSA operations have returned: a blob that no operation returned     *)
(* does not decrypt (no forgery, no malleability).                         *)
(***************************************************************************)
\* modulusLength of SEA.pair, in bits.
ModulusLength == 4096
\* Longest input of privateEncrypt (PKCS#1 v1.5) and publicEncrypt (OAEP).
RsaSignMax == (ModulusLength \div 8) - 11
RsaEncryptMax == (ModulusLength \div 8) - 42

IsKey(k) == k \in KeyIds
SigTag(k) == 2 * k
EncTag(k) == 2 * k + 1

Threw == [ok |-> FALSE, val |-> <<>>]
Returned(v) == [ok |-> TRUE, val |-> v]

privateEncrypt(priv, buf) ==
  IF IsKey(priv) /\ Len(buf) <= RsaSignMax
    THEN Returned(<<SigTag(priv)>> \o buf) ELSE Threw

publicDecrypt(pub, buf) ==
  IF IsKey(pub) /\ buf \in oracle /\ Len(buf) >= 1 /\ buf[1] = SigTag(pub)
    THEN Returned(Tail(buf)) ELSE Threw

publicEncrypt(pub, buf) ==
  IF IsKey(pub) /\ Len(buf) <= RsaEncryptMax
    THEN Returned(<<EncTag(pub)>> \o buf) ELSE Threw

privateDecrypt(priv, buf) ==
  IF IsKey(priv) /\ buf \in oracle /\ Len(buf) >= 1 /\ buf[1] = EncTag(priv)
    THEN Returned(Tail(buf)) ELSE Threw

(***************************************************************************)
(* SHA-256, idealised as a streaming checksum of DigestLen bytes: byte j   *)
(* of the state accumulates weight(j, position) * byte, the first weight   *)
(* being 1, so that changing one bit of the input changes the digest.      *)
(***************************************************************************)
Sha256Init == [n |-> 0, acc |-> [j \in 1..DigestLen |-> (29 * j) % 256]]

RECURSIVE Sha256Update(_, _)
Sha256Update(h, chunk) ==
  IF chunk = <<>> THEN h
  ELSE Sha256Update(
         [n |-> h.n + 1,
          acc |-> [j \in 1..DigestLen |->
                     (h.acc[j] + (1 + (j - 1) * (h.n + 1)) * chunk[1]) % 256]],
         Tail(chunk))

Sha256Digest(h) == [j \in 1..DigestLen |-> (h.acc[j] + j * h.n) % 256]

\* SEA.hash: createHash("sha256").update(data).digest("base64")
hash(data) ==
  ToStringBase64(Sha256Digest(Sha256Update(Sha256Init, BufferFromUtf8(data))))

\* SEA.hashFile on a readable file holding bytes.
hashFile(bytes) ==
  ToStringBase64(Sha256Digest(Sha256Update(Sha256Init, bytes)))

(***************************************************************************)
(* AES-128-CBC with PKCS#7 padding, idealised: the block cipher adds the   *)
(* key byte-wise modulo 256, chained with the previous cipher block.       *)
(***************************************************************************)
Pkcs7Pad(plain) ==
  LET n == AesLen - (Len(plain) % AesLen)
  IN  plain \o [i \in 1..n |-> n]

RECURSIVE CbcEncrypt(_, _, _, _)
CbcEncrypt(key, iv, padded, out) ==
  IF Len(out) = Len(padded) THEN out
  ELSE LET i == Len(out) + 1
           prev == IF i <= AesLen THEN iv[i] ELSE out[i - AesLen]
           k == key[((i - 1) % AesLen) + 1]
       IN  CbcEncrypt(key, iv, padded,
                      Append(out, (padded[i] + prev + k) % 256))

\* createCipheriv throws on a key or iv of the wrong length.
CipherArgsOk(key, iv) == Len(key) = AesLen /\ Len(iv) = AesLen

\* A cipher stream that passes the source through unchanged.
CipherNone(key, iv, plain) == plain

Cipher(key, iv, plain) == CbcEncrypt(key, iv, Pkcs7Pad(plain), <<>>)

CbcDecrypt(key, iv, c) ==
  [i \in 1..Len(c) |->
     LET prev == IF i <= AesLen THEN iv[i] ELSE c[i - AesLen]
         k == key[((i - 1) % AesLen) + 1]
     IN  (c[i] + 512 - prev - k) % 256]

\* What a Decipher stream does with the whole input c: the plaintext, or a
\* failure of final() after the blocks before the last have been emitted.
Decipher(key, iv, c) ==
  LET p == CbcDecrypt(key, iv, c)
      n == IF Len(p) = 0 THEN 0 ELSE p[Len(p)]
      emitted == IF Len(c) = 0 THEN 0 ELSE ((Len(c) - 1) \div AesLen) * AesLen
  IN  IF /\ Len(c) > 0
         /\ Len(c) % AesLen = 0
         /\ n >= 1
         /\ n <= AesLen
         /\ \A i \in (Len(p) - n + 1)..Len(p) : p[i] = n
        THEN [ok |-> TRUE, val |-> SubSeq(p, 1, Len(p) - n)]
        ELSE [ok |-> FALSE, val |-> SubSeq(p, 1, emitted)]

(***************************************************************************)
(* The string primitives of SEA.                                           *)
(***************************************************************************)
\* SEA.encryptForAddress / SEA.encrypt; .val is the base64 string.
encryptForAddress(data, pub) ==
  LET encrypted == publicEncrypt(pub, BufferFromUtf8(data))
  IN  IF encrypted.ok THEN Returned(ToStringBase64(encrypted.val)) ELSE Threw

\* SEA.decrypt; .val is the decoded string.
decrypt(data, key) ==
  LET plain == privateDecrypt(key.priv, BufferFromBase64(data))
  IN  IF plain.ok THEN Returned(ToStringUtf8(plain.val)) ELSE Threw

\* SEA.sign; .val is the base64 string.
sign(data, key) ==
  LET mac == privateEncrypt(key.priv, BufferFromUtf8(data))
  IN  IF mac.ok THEN Returned(ToStringBase64(mac.val)) ELSE Threw

\* SEA.verifyViaAddress with its catch removed: the exception escapes.
VerifyWithoutCatch(pub, data, expected) ==
  LET mac == publicDecrypt(pub, BufferFromBase64(data))
  IN  IF mac.ok
        THEN [threw |-> FALSE, val |-> ToStringUtf8(mac.val) = expected]
        ELSE [threw |-> TRUE, val |-> FALSE]

\* SEA.verifyViaAddress / SEA.verify: .threw tells whether the call raised.
verifyViaAddress(pub, data, expected) ==
  LET mac == publicDecrypt(pub, BufferFromBase64(data))
  IN  IF mac.ok
        THEN [threw |-> FALSE, val |-> ToStringUtf8(mac.val) = expected]
        ELSE [threw |-> FALSE, val |-> FALSE]

\* String.prototype.split(":"): the pieces between the delimiters.
RECURSIVE Split(_, _, _)
Split(s, i, piece) ==
  IF i > Len(s) THEN <<piece>>
  ELSE IF s[i] = 58 THEN <<piece>> \o Split(s, i + 1, <<>>)
  ELSE Split(s, i + 1, Append(piece, s[i]))

split(s) == Split(s, 1, <<>>)

(***************************************************************************)
(* The file system: fs maps each existing path <<directory, name>> to the  *)
(* bytes of the file.  Directory 0 is the caller's; directories 1, 2, ...  *)
(* are the staging directories requestTempDir has created.                 *)
(***************************************************************************)
SrcPath == <<0, "doc.txt">>
EnvPath == <<0, "doc.env">>
OutPath == <<0, "doc.out">>

Exists(p) == p \in DOMAIN fs

WriteFile(f, p, data) ==
  [q \in (DOMAIN f) \cup {p} |-> IF q = p THEN data ELSE f[q]]

\* createReadStream(path, {start, end}) rejects a negative or inverted range.
RangeOk(start, end) == start >= 0 /\ end >= 0 /\ start <= end

\* The bytes a read stream delivers for the 0-indexed range start..end
\* (end included), and for start..EOF.
ReadRange(data, start, end) == Slice(data, start + 1, end + 1)
ReadFrom(data, start) == Slice(data, start + 1, Len(data))

\* SEA.readChunkFromFile: a zero-filled buffer of end - start bytes holding
\* the bytes the file has from position start on.
readChunkFromFile(data, start, end) ==
  [j \in 1..(end - start) |-> IF start + j <= Len(data) THEN data[start + j] ELSE 0]

(***************************************************************************)
(* The inputs the operations are called with.                              *)
(***************************************************************************)
\* A public key argument: a key, or 0 for a string that is no key.
PubArgs == 0..NumKeys

Pair(k) == [pub |-> k, priv |-> k]

\* The key pairs are interchangeable: encryptFile's sender is the first.
Senders == {1}

\* prefix, continued with ASCII letters to n elements.
Filled(prefix, n) ==
  [i \in 1..n |-> IF i <= Len(prefix) THEN prefix[i] ELSE 64 + i]

\* Values randomBytes(16) can return: ASCII only; holding the byte ':';
\* holding a byte that is not UTF-8; holding a two-byte UTF-8 character.
RandomKeys ==
  { Filled(<<>>, AesLen), Filled(<<70, 58>>, AesLen),
    Filled(<<200>>, AesLen), Filled(<<195, 169>>, AesLen) }
RandomIvs == { Filled(<<97, 98>>, AesLen), Filled(<<241, 128, 128>>, AesLen) }

\* Contents of the source file: empty, shorter than a block, longer.
Plaintexts == { <<>>, <<72, 105>>, Filled(<<10>>, AesLen + 1) }

ErrNone == "none"
ErrIntegrity == "File integrity failed."
ErrNoEntry == "ENOENT"
ErrRange == "ERR_OUT_OF_RANGE"
ErrPublicEncrypt == "publicEncrypt failed"
ErrPrivateEncrypt == "privateEncrypt failed"
ErrPrivateDecrypt == "privateDecrypt failed"
ErrArgType == "ERR_INVALID_ARG_TYPE"
ErrKeyLength == "Invalid key length"
ErrBadDecrypt == "bad decrypt"

(***************************************************************************)
(* encryptFile(source, dest, from_key, to), one action per group of        *)
(* statements between two awaits.                                          *)
(***************************************************************************)
EncIdle ==
  [pc |-> "idle", from_key |-> Pair(0), to |-> 0, dir |-> 0,
   key |-> <<>>, iv |-> <<>>, size_key |-> 0, size_mac |-> 0, err |-> ErrNone]

DecIdle ==
  [pc |-> "idle", sender |-> 0, receiver_key |-> Pair(0), dir |-> 0,
   size_mac |-> 0, size_key |-> 0, is_safe |-> FALSE,
   key |-> <<>>, iv |-> <<>>, did |-> {}, err |-> ErrNone]

\* A staging directory that is the same for every call.
requestTempDirShared == Min(dirs + 1, 1)

\* SEA.requestTempDir: a directory named by a fresh uuid.
requestTempDir == dirs + 1

\* Lines 180-194: staging directory, one-time secret, wrapped secret.
EncryptFileWrap(from, to, key, iv) ==
  /\ enc.pc = "idle"
  /\ LET dir == requestTempDir
         key_enc == encryptForAddress(
                      ToStringUtf8(key) \o <<58>> \o ToStringUtf8(iv), to)
         key_bin == BufferFromBase64(key_enc.val)
     IN  /\ dirs' = dir
         /\ sent' = sent \cup {[from |-> from, to |-> to, plain |-> fs[SrcPath]]}
         /\ IF key_enc.ok
              THEN /\ oracle' = oracle \cup {key_bin}
                   /\ fs' = WriteFile(fs, <<dir, "key.txt">>, key_bin)
                   /\ enc' = [enc EXCEPT !.pc = "cipher", !.from_key = Pair(from),
                                         !.to = to, !.dir = dir, !.key = key,
                                         !.iv = iv, !.size_key = Len(key_bin)]
              ELSE /\ UNCHANGED <<oracle, fs>>
                   /\ enc' = [enc EXCEPT !.pc = "failed", !.from_key = Pair(from),
                                         !.to = to, !.dir = dir,
                                         !.err = ErrPublicEncrypt]
  /\ UNCHANGED <<dec, tampered, issued, prim, calls, parser, lexer>>

\* Lines 197-201: the source streamed through the cipher into the staging file.
EncryptFileCipher ==
  /\ enc.pc = "cipher"
  /\ fs' = WriteFile(fs, <<enc.dir, "content.aes">>,
                     Cipher(enc.key, enc.iv, fs[SrcPath]))
  /\ enc' = [enc EXCEPT !.pc = "sign"]
  /\ UNCHANGED <<dirs, dec, sent, oracle, tampered, issued, prim, calls, parser, lexer>>

\* Lines 204-209: digest of the staged ciphertext, signed by the sender.
EncryptFileSign ==
  /\ enc.pc = "sign"
  /\ LET hash_b64 == hashFile(fs[<<enc.dir, "content.aes">>])
         hash_utf8 == ToStringUtf8(BufferFromBase64(hash_b64))
         mac == sign(hash_utf8, enc.from_key)
         mac_bin == BufferFromBase64(mac.val)
     IN  IF mac.ok
           THEN /\ oracle' = oracle \cup {mac_bin}
                /\ fs' = WriteFile(fs, <<enc.dir, "mac.txt">>, mac_bin)
                /\ enc' = [enc EXCEPT !.pc = "compile", !.size_mac = Len(mac_bin)]
           ELSE /\ UNCHANGED <<oracle, fs>>
                /\ enc' = [enc EXCEPT !.pc = "failed", !.err = ErrPrivateEncrypt]
  /\ UNCHANGED <<dirs, dec, sent, tampered, issued, prim, calls, parser, lexer>>

\* The stream list of lines 212-218 with key and mac exchanged.
CompiledSwapped(size_mac, size_key, mac, key, content) ==
  toInt32(Num(size_mac)) \o toInt32(Num(size_key)) \o key \o mac \o content

\* Lines 212-218: the streams concatenated into the destination.
Compiled(size_mac, size_key, mac, key, content) ==
  toInt32(Num(size_mac)) \o toInt32(Num(size_key)) \o mac \o key \o content

\* Lines 212-219: the envelope written to dest.
EncryptFileCompile ==
  /\ enc.pc = "compile"
  /\ fs' = WriteFile(fs, EnvPath,
                     Compiled(enc.size_mac, enc.size_key,
                              fs[<<enc.dir, "mac.txt">>],
                              fs[<<enc.dir, "key.txt">>],
                              fs[<<enc.dir, "content.aes">>]))
  /\ enc' = [enc EXCEPT !.pc = "done"]
  /\ UNCHANGED <<dirs, dec, sent, oracle, tampered, issued, prim, calls, parser, lexer>>

(***************************************************************************)
(* decryptFile(source, dest, sender, receiver_key), one action per group   *)
(* of statements between two awaits.  dec.did records the cryptographic    *)
(* operations the call has performed so far.                               *)
(***************************************************************************)
\* Lines 286-296: the two header fields and the staging directory.
DecryptFileHeader(sender, receiver) ==
  /\ dec.pc = "idle"
  /\ enc.pc \in {"done", "failed"}
  /\ IF Exists(EnvPath)
       THEN LET size_mac_buff == readChunkFromFile(fs[EnvPath], 0, 4)
                size_key_buff == readChunkFromFile(fs[EnvPath], 4, 8)
            IN  /\ dirs' = requestTempDir
                /\ dec' = [dec EXCEPT !.pc = "isolate", !.sender = sender,
                                      !.receiver_key = Pair(receiver),
                                      !.size_mac = readInt32BE(size_mac_buff),
                                      !.size_key = readInt32BE(size_key_buff),
                                      !.dir = requestTempDir]
       ELSE /\ dec' = [dec EXCEPT !.pc = "failed", !.sender = sender,
                                  !.receiver_key = Pair(receiver),
                                  !.err = ErrNoEntry]
            /\ UNCHANGED dirs
  /\ UNCHANGED <<fs, enc, sent, oracle, tampered, issued, prim, calls, parser, lexer>>

\* The 0-indexed first and last offset of each region read by lines 299-320.
MacStart == 4 + 4
MacEnd(size_mac) == (4 + 4 + size_mac) - 1
KeyStart(size_mac) == 4 + 4 + size_mac
KeyEnd(size_mac, size_key) == (4 + 4 + size_mac + size_key) - 1
ContentStart(size_mac, size_key) == 4 + 4 + size_mac + size_key

\* Lines 299-320: the three regions copied to staging files, in order; a
\* rejected range aborts the call after the copies already made.
DecryptFileIsolate ==
  /\ dec.pc = "isolate"
  /\ LET env == fs[EnvPath]
         macOk == RangeOk(MacStart, MacEnd(dec.size_mac))
         keyOk == RangeOk(KeyStart(dec.size_mac),
                          KeyEnd(dec.size_mac, dec.size_key))
         contentOk == ContentStart(dec.size_mac, dec.size_key) >= 0
         fs1 == WriteFile(fs, <<dec.dir, "mac.txt">>,
                          ReadRange(env, MacStart, MacEnd(dec.size_mac)))
         fs2 == WriteFile(fs1, <<dec.dir, "key.enc">>,
                          ReadRange(env, KeyStart(dec.size_mac),
                                    KeyEnd(dec.size_mac, dec.size_key)))
         fs3 == WriteFile(fs2, <<dec.dir, "content.aes">>,
                          ReadFrom(env, ContentStart(dec.size_mac, dec.size_key)))
     IN  IF ~macOk
           THEN fs' = fs /\ dec' = [dec EXCEPT !.pc = "failed", !.err = ErrRange]
         ELSE IF ~keyOk
           THEN fs' = fs1 /\ dec' = [dec EXCEPT !.pc = "failed", !.err = ErrRange]
         ELSE IF ~contentOk
           THEN fs' = fs2 /\ dec' = [dec EXCEPT !.pc = "failed", !.err = ErrRange]
         ELSE fs' = fs3 /\ dec' = [dec EXCEPT !.pc = "verify"]
  /\ UNCHANGED <<dirs, enc, sent, oracle, tampered, issued, prim, calls, parser, lexer>>

\* Line 326 accepting any authenticator the sender's key recovers, whatever
\* the digest of the staged ciphertext.
IsSafeSignerOnly ==
  publicDecrypt(dec.sender, fs[<<dec.dir, "mac.txt">>]).ok

\* The result of line 326 for the staged authenticator and ciphertext.
IsSafe ==
  LET mac == fs[<<dec.dir, "mac.txt">>]
      mac_base64 == ToStringBase64(mac)
      hash_b64 == hashFile(fs[<<dec.dir, "content.aes">>])
  IN  verifyViaAddress(dec.sender, mac_base64, hash_b64).val

\* Lines 323-327 without the throw of line 327.
DecryptFileVerifyNoThrow ==
  /\ dec.pc = "verify"
  /\ dec' = [dec EXCEPT !.pc = "key", !.is_safe = IsSafe,
                        !.did = dec.did \cup {"verify"}]
  /\ UNCHANGED <<fs, dirs, enc, sent, oracle, tampered, issued, prim, calls, parser, lexer>>

\* Lines 323-327: verify the authenticator against the recomputed digest.
DecryptFileVerify ==
  /\ dec.pc = "verify"
  /\ IF IsSafe
       THEN dec' = [dec EXCEPT !.pc = "key", !.is_safe = TRUE,
                               !.did = dec.did \cup {"verify"}]
       ELSE dec' = [dec EXCEPT !.pc = "failed", !.is_safe = FALSE,
                               !.did = dec.did \cup {"verify"},
                               !.err = ErrIntegrity]
  /\ UNCHANGED <<fs, dirs, enc, sent, oracle, tampered, issued, prim, calls, parser, lexer>>

\* The error of a failed privateDecrypt, were it reported as line 327's.
DecryptFailureAsIntegrity == ErrIntegrity

\* The error decryptFile rejects with when SEA.decrypt throws at line 332.
DecryptFailure == ErrPrivateDecrypt

\* Lines 330-337 with dest opened before the wrapped secret is decrypted.
DecryptFileKeyOpensDest ==
  /\ dec.pc = "key"
  /\ LET key_enc == fs[<<dec.dir, "key.enc">>]
         key_enc_base64 == ToStringBase64(key_enc)
         key_raw_utf8 == decrypt(key_enc_base64, dec.receiver_key)
         parts == split(key_raw_utf8.val)
     IN  IF ~key_raw_utf8.ok
           THEN dec' = [dec EXCEPT !.pc = "failed", !.err = DecryptFailure,
                                   !.did = dec.did \cup {"privateDecrypt"}]
         ELSE IF Len(parts) < 2
           THEN dec' = [dec EXCEPT !.pc = "failed", !.err = ErrArgType,
                                   !.did = dec.did \cup {"privateDecrypt"}]
         ELSE dec' = [dec EXCEPT !.pc = "content",
                                 !.key = BufferFromUtf8(parts[1]),
                                 !.iv = BufferFromUtf8(parts[2]),
                                 !.did = dec.did \cup {"privateDecrypt"}]
  /\ fs' = WriteFile(fs, OutPath, <<>>)
  /\ UNCHANGED <<dirs, enc, sent, oracle, tampered, issued, prim, calls, parser, lexer>>

\* Lines 330-337: the wrapped secret decrypted and split into key and iv.
DecryptFileKey ==
  /\ dec.pc = "key"
  /\ LET key_enc == fs[<<dec.dir, "key.enc">>]
         key_enc_base64 == ToStringBase64(key_enc)
         key_raw_utf8 == decrypt(key_enc_base64, dec.receiver_key)
         parts == split(key_raw_utf8.val)
     IN  IF ~key_raw_utf8.ok
           THEN dec' = [dec EXCEPT !.pc = "failed", !.err = DecryptFailure,
                                   !.did = dec.did \cup {"privateDecrypt"}]
         ELSE IF Len(parts) < 2
           THEN dec' = [dec EXCEPT !.pc = "failed", !.err = ErrArgType,
                                   !.did = dec.did \cup {"privateDecrypt"}]
         ELSE dec' = [dec EXCEPT !.pc = "content",
                                 !.key = BufferFromUtf8(parts[1]),
                                 !.iv = BufferFromUtf8(parts[2]),
                                 !.did = dec.did \cup {"privateDecrypt"}]
  /\ UNCHANGED <<fs, dirs, enc, sent, oracle, tampered, issued, prim, calls, parser, lexer>>

\* Lines 340-344: the staged ciphertext streamed through the decipher into
\* dest.  createDecipheriv throws before dest is opened; a failure of the
\* decipher's final block leaves in dest what was emitted before it.
DecryptFileContent ==
  /\ dec.pc = "content"
  /\ LET plain == Decipher(dec.key, dec.iv, fs[<<dec.dir, "content.aes">>])
     IN  IF ~CipherArgsOk(dec.key, dec.iv)
           THEN fs' = fs /\ dec' = [dec EXCEPT !.pc = "failed", !.err = ErrKeyLength]
         ELSE IF plain.ok
           THEN /\ fs' = WriteFile(fs, OutPath, plain.val)
                /\ dec' = [dec EXCEPT !.pc = "done",
                                      !.did = dec.did \cup {"decipher"}]
         ELSE /\ fs' = WriteFile(fs, OutPath, plain.val)
              /\ dec' = [dec EXCEPT !.pc = "failed", !.err = ErrBadDecrypt,
                                    !.did = dec.did \cup {"decipher"}]
  /\ UNCHANGED <<dirs, enc, sent, oracle, tampered, issued, prim, calls, parser, lexer>>

(***************************************************************************)
(* The environment between encryptFile and decryptFile: the envelope file  *)
(* is in the hands of whoever transports it.                               *)
(***************************************************************************)
FlipBit(x, b) == IF (x \div (2 ^ b)) % 2 = 1 THEN x - 2 ^ b ELSE x + 2 ^ b

\* The fields of a well-formed envelope, read as the layout describes them.
Uint32(buf) == buf[1] * 16777216 + buf[2] * 65536 + buf[3] * 256 + buf[4]
EnvMacLen(env) == Uint32(SubSeq(env, 1, 4))
EnvKeyLen(env) == Uint32(SubSeq(env, 5, 8))
EnvMac(env) == SubSeq(env, 9, 8 + EnvMacLen(env))
EnvKey(env) ==
  SubSeq(env, 9 + EnvMacLen(env), 8 + EnvMacLen(env) + EnvKeyLen(env))
EnvContent(env) ==
  SubSeq(env, 9 + EnvMacLen(env) + EnvKeyLen(env), Len(env))

\* One bit of one byte after the header is flipped.
Tamper(i, b) ==
  /\ enc.pc = "done" /\ dec.pc = "idle" /\ tampered.kind = "none" /\ issued = {}
  /\ i \in 9..Len(fs[EnvPath])
  /\ fs' = [fs EXCEPT ![EnvPath][i] = FlipBit(@, b)]
  /\ tampered' = [kind |-> "bit", offset |-> i - 1]
  /\ UNCHANGED <<dirs, enc, dec, sent, oracle, issued, prim, calls, parser, lexer>>

\* Documents a key holder signs the digest of (as a checklist's creator does).
Documents ==
  { [i \in 1..AesLen |-> IF i = AesLen THEN 122 ELSE 98 + i], <<79, 75>>, <<>> }

\* A key holder signs the digest of a document with the public sign operation.
SignDocument(k, doc) ==
  /\ enc.pc = "done" /\ dec.pc = "idle" /\ tampered.kind = "none" /\ issued = {}
  /\ LET mac == sign(hash(doc), Pair(k))
     IN  /\ mac.ok
         /\ issued' = {[key |-> k, doc |-> doc, sig |-> mac.val]}
         /\ oracle' = oracle \cup {BufferFromBase64(mac.val)}
  /\ UNCHANGED <<fs, dirs, enc, dec, sent, tampered, prim, calls, parser, lexer>>

\* The secret an adversary wraps: ASCII strings of the key's length.
AdvKey == [i \in 1..AesLen |-> 60]
AdvIv == [i \in 1..AesLen |-> 61]

\* The wrapped-secret field of the envelope is replaced by a secret of the
\* adversary's choice, wrapped for `to` with that public key.
ReplaceWrapped(to) ==
  /\ enc.pc = "done" /\ dec.pc = "idle" /\ tampered.kind = "none" /\ issued = {}
  /\ LET env == fs[EnvPath]
         key_enc == encryptForAddress(AdvKey \o <<58>> \o AdvIv, to)
         key_bin == BufferFromBase64(key_enc.val)
     IN  /\ key_enc.ok
         /\ oracle' = oracle \cup {key_bin}
         /\ fs' = [fs EXCEPT ![EnvPath] =
                     Compiled(EnvMacLen(env), Len(key_bin), EnvMac(env),
                              key_bin, EnvContent(env))]
  /\ tampered' = [kind |-> "wrapped", offset |-> 8 + EnvMacLen(fs[EnvPath])]
  /\ UNCHANGED <<dirs, enc, dec, sent, issued, prim, calls, parser, lexer>>

\* The envelope is replaced by one assembled from a signature the sender
\* issued on a document's digest, the document's bytes as the ciphertext
\* region, and a secret of the adversary's choice wrapped for `to`.
Forge(to) ==
  /\ enc.pc = "done" /\ dec.pc = "idle" /\ tampered.kind = "none"
  /\ \E s \in issued :
       LET mac_bin == BufferFromBase64(s.sig)
           key_enc == encryptForAddress(AdvKey \o <<58>> \o AdvIv, to)
           key_bin == BufferFromBase64(key_enc.val)
       IN  /\ key_enc.ok
           /\ oracle' = oracle \cup {key_bin}
           /\ fs' = [fs EXCEPT ![EnvPath] =
                       Compiled(Len(mac_bin), Len(key_bin), mac_bin, key_bin,
                                BufferFromUtf8(s.doc))]
  /\ tampered' = [kind |-> "forged", offset |-> 0]
  /\ UNCHANGED <<dirs, enc, dec, sent, issued, prim, calls, parser, lexer>>

\* The envelope is cut to its first n bytes.
Truncate(n) ==
  /\ enc.pc = "done" /\ dec.pc = "idle" /\ tampered.kind = "none" /\ issued = {}
  /\ n < Len(fs[EnvPath])
  /\ fs' = [fs EXCEPT ![EnvPath] = SubSeq(@, 1, n)]
  /\ tampered' = [kind |-> "short", offset |-> n]
  /\ UNCHANGED <<dirs, enc, dec, sent, oracle, issued, prim, calls, parser, lexer>>

\* The header of the envelope, genuine or assembled, is rewritten to declare
\* a wrapped secret one byte longer than the one that follows.
DeclareLonger ==
  /\ enc.pc = "done" /\ dec.pc = "idle" /\ tampered.kind \in {"none", "forged"}
  /\ LET env == fs[EnvPath]
     IN  fs' = [fs EXCEPT ![EnvPath] =
                  Compiled(EnvMacLen(env), EnvKeyLen(env) + 1, EnvMac(env),
                           EnvKey(env), EnvContent(env))]
  /\ tampered' = [kind |-> "short", offset |-> 4]
  /\ UNCHANGED <<dirs, enc, dec, sent, oracle, issued, prim, calls, parser, lexer>>

(***************************************************************************)
(* Concurrent calls of encryptFile and decryptFile.  calls[c] is the call  *)
(* c: its kind, its position between two awaits, its staging directory and *)
(* the staged files it has written and read.  The outcome of every step    *)
(* (it returns, or it throws) is chosen by the environment.                *)
(***************************************************************************)
\* Number of calls in flight at the same time.
NumCalls == 2
CallIds == 1..NumCalls

CallIdle == [kind |-> "none", pc |-> "idle", dir |-> 0, wrote |-> {}, read |-> {}]
NoCalls == [c \in CallIds |-> CallIdle]

\* Line 180: the staging directory of an encryptFile call; temp.mkdir may fail.
EncStart(c, ok) ==
  /\ calls[c].pc = "idle"
  /\ IF ok
       THEN /\ dirs' = requestTempDir
            /\ calls' = [calls EXCEPT ![c] = [@ EXCEPT !.kind = "encryptFile",
                                                       !.pc = "wrap",
                                                       !.dir = requestTempDir]]
       ELSE /\ dirs' = dirs
            /\ calls' = [calls EXCEPT ![c] = [@ EXCEPT !.kind = "encryptFile",
                                                       !.pc = "failed"]]
  /\ UNCHANGED <<fs, enc, dec, sent, oracle, tampered, issued, prim, parser, lexer>>

\* Lines 186-194: the wrapped secret written to key.txt.
EncWrap(c, ok) ==
  /\ calls[c].pc = "wrap"
  /\ calls' = [calls EXCEPT ![c] =
       IF ok THEN [@ EXCEPT !.pc = "cipher",
                            !.wrote = @ \cup {<<calls[c].dir, "key.txt">>}]
             ELSE [@ EXCEPT !.pc = "failed"]]
  /\ UNCHANGED <<fs, dirs, enc, dec, sent, oracle, tampered, issued, prim, parser, lexer>>

\* Lines 197-201: the ciphertext written to content.aes.
EncCipher(c, ok) ==
  /\ calls[c].pc = "cipher"
  /\ calls' = [calls EXCEPT ![c] =
       IF ok THEN [@ EXCEPT !.pc = "sign",
                            !.wrote = @ \cup {<<calls[c].dir, "content.aes">>}]
             ELSE [@ EXCEPT !.pc = "failed"]]
  /\ UNCHANGED <<fs, dirs, enc, dec, sent, oracle, tampered, issued, prim, parser, lexer>>

\* What a step that calls hashFile can do: return, throw, or never settle.
\* hashFile listens to "end" only (lines 258-262): when the read stream
\* fails, its promise is neither resolved nor rejected.
HashOutcomes == {"ok", "throw", "readerror"}

\* Lines 204-209: content.aes hashed, the authenticator written to mac.txt.
EncSign(c, outcome) ==
  /\ calls[c].pc = "sign"
  /\ calls' = [calls EXCEPT ![c] =
       IF outcome = "ok"
         THEN [@ EXCEPT !.pc = "compile",
                        !.read = @ \cup {<<calls[c].dir, "content.aes">>},
                        !.wrote = @ \cup {<<calls[c].dir, "mac.txt">>}]
       ELSE IF outcome = "throw"
         THEN [@ EXCEPT !.pc = "failed",
                        !.read = @ \cup {<<calls[c].dir, "content.aes">>}]
       ELSE [@ EXCEPT !.pc = "pending"]]
  /\ UNCHANGED <<fs, dirs, enc, dec, sent, oracle, tampered, issued, prim, parser, lexer>>

\* Lines 212-219: the three staged files streamed into dest.
EncCompile(c, ok) ==
  /\ calls[c].pc = "compile"
  /\ calls' = [calls EXCEPT ![c] =
       [@ EXCEPT !.pc = IF ok THEN "done" ELSE "failed",
                 !.read = @ \cup {<<calls[c].dir, "mac.txt">>,
                                  <<calls[c].dir, "key.txt">>,
                                  <<calls[c].dir, "content.aes">>}]]
  /\ UNCHANGED <<fs, dirs, enc, dec, sent, oracle, tampered, issued, prim, parser, lexer>>

\* Lines 286-296: the header read, then the staging directory of the call.
DecStart(c, ok) ==
  /\ calls[c].pc = "idle"
  /\ IF ok
       THEN /\ dirs' = requestTempDir
            /\ calls' = [calls EXCEPT ![c] = [@ EXCEPT !.kind = "decryptFile",
                                                       !.pc = "isolate",
                                                       !.dir = requestTempDir]]
       ELSE /\ dirs' = dirs
            /\ calls' = [calls EXCEPT ![c] = [@ EXCEPT !.kind = "decryptFile",
                                                       !.pc = "failed"]]
  /\ UNCHANGED <<fs, enc, dec, sent, oracle, tampered, issued, prim, parser, lexer>>

\* Lines 299-320: the three regions written to mac.txt, key.enc, content.aes.
DecIsolate(c, ok) ==
  /\ calls[c].pc = "isolate"
  /\ calls' = [calls EXCEPT ![c] =
       IF ok THEN [@ EXCEPT !.pc = "verify",
                            !.wrote = @ \cup {<<calls[c].dir, "mac.txt">>,
                                              <<calls[c].dir, "key.enc">>,
                                              <<calls[c].dir, "content.aes">>}]
             ELSE [@ EXCEPT !.pc = "failed",
                            !.wrote = @ \cup {<<calls[c].dir, "mac.txt">>}]]
  /\ UNCHANGED <<fs, dirs, enc, dec, sent, oracle, tampered, issued, prim, parser, lexer>>

\* Lines 323-327: mac.txt read, content.aes hashed, the authenticator verified.
DecVerify(c, outcome) ==
  /\ calls[c].pc = "verify"
  /\ calls' = [calls EXCEPT ![c] =
       IF outcome = "readerror"
         THEN [@ EXCEPT !.pc = "pending",
                        !.read = @ \cup {<<calls[c].dir, "mac.txt">>}]
       ELSE [@ EXCEPT !.pc = IF outcome = "ok" THEN "key" ELSE "failed",
                      !.read = @ \cup {<<calls[c].dir, "mac.txt">>,
                                       <<calls[c].dir, "content.aes">>}]]
  /\ UNCHANGED <<fs, dirs, enc, dec, sent, oracle, tampered, issued, prim, parser, lexer>>

\* Lines 330-337: key.enc read and decrypted.
DecKey(c, ok) ==
  /\ calls[c].pc = "key"
  /\ calls' = [calls EXCEPT ![c] =
       [@ EXCEPT !.pc = IF ok THEN "content" ELSE "failed",
                 !.read = @ \cup {<<calls[c].dir, "key.enc">>}]]
  /\ UNCHANGED <<fs, dirs, enc, dec, sent, oracle, tampered, issued, prim, parser, lexer>>

\* Lines 340-344: content.aes streamed through the decipher into dest.
DecContent(c, ok) ==
  /\ calls[c].pc = "content"
  /\ calls' = [calls EXCEPT ![c] =
       [@ EXCEPT !.pc = IF ok THEN "done" ELSE "failed",
                 !.read = @ \cup {<<calls[c].dir, "content.aes">>}]]
  /\ UNCHANGED <<fs, dirs, enc, dec, sent, oracle, tampered, issued, prim, parser, lexer>>

\* Any step of the call c.
CallStep(c) ==
  \/ \E ok \in BOOLEAN : EncStart(c, ok)
  \/ \E ok \in BOOLEAN : EncWrap(c, ok)
  \/ \E ok \in BOOLEAN : EncCipher(c, ok)
  \/ \E outcome \in HashOutcomes : EncSign(c, outcome)
  \/ \E ok \in BOOLEAN : EncCompile(c, ok)
  \/ \E ok \in BOOLEAN : DecStart(c, ok)
  \/ \E ok \in BOOLEAN : DecIsolate(c, ok)
  \/ \E outcome \in HashOutcomes : DecVerify(c, outcome)
  \/ \E ok \in BOOLEAN : DecKey(c, ok)
  \/ \E ok \in BOOLEAN : DecContent(c, ok)

\* Before Parser.parse and before Lexer.lex are called.
ParserIdle == [pc |-> "idle"]
LexerIdle == [pc |-> "idle"]

TamperBits == 0..7

\* No envelope of the model is longer: header, authenticator, wrapped secret
\* (every byte of digest, key and iv encoded in at most three), ciphertext.
MaxEnvLen == 8 + (1 + 3 * DigestLen) + (2 + 6 * AesLen) + 2 * AesLen

Init ==
  /\ \E plain \in Plaintexts : fs = (SrcPath :> plain)
  /\ dirs = 0
  /\ enc = EncIdle
  /\ dec = DecIdle
  /\ sent = {}
  /\ oracle = {}
  /\ tampered = [kind |-> "none", offset |-> 0]
  /\ issued = {}
  /\ prim = [op |-> "none"]
  /\ calls = NoCalls
  /\ parser = ParserIdle
  /\ lexer = LexerIdle

Next ==
  \/ \E from \in Senders, to \in PubArgs, key \in RandomKeys, iv \in RandomIvs :
       EncryptFileWrap(from, to, key, iv)
  \/ EncryptFileCipher
  \/ EncryptFileSign
  \/ EncryptFileCompile
  \/ \E i \in 9..MaxEnvLen, b \in TamperBits : Tamper(i, b)
  \/ \E k \in KeyIds, doc \in Documents : SignDocument(k, doc)
  \/ \E to \in KeyIds : ReplaceWrapped(to)
  \/ \E to \in KeyIds : Forge(to)
  \/ \E n \in 0..MaxEnvLen : Truncate(n)
  \/ DeclareLonger
  \/ \E sender \in PubArgs, receiver \in KeyIds : DecryptFileHeader(sender, receiver)
  \/ DecryptFileIsolate
  \/ DecryptFileVerify
  \/ DecryptFileKey
  \/ DecryptFileContent

Spec == Init /\ [][Next]_vars

(***************************************************************************)
(* The string primitives called on their own: prim holds the last call.    *)
(***************************************************************************)
\* Signatures issued in one run of the primitives.
MaxSigned == 1

\* Messages: empty, ASCII, a two-byte character, a surrogate pair, U+FFFD,
\* an unpaired high and an unpaired low surrogate.
Messages ==
  { <<>>, <<72, 105>>, <<233>>, <<55357, 56832>>, <<65533>>, <<55296>>,
    <<65, 56320>> }

\* Authenticator strings nobody signed: empty, not base64, a blob's base64.
StrayAuthenticators == { <<>>, <<42, 42>>, ToStringBase64(<<SigTag(1), 72, 105>>) }

\* Header values: small ones, a real RSA blob's length, and the values
\* around the sign bit and at the top of the unsigned 32-bit range.
Lengths ==
  { Num(0), Num(1), Num(255), Num(256), Num(512), Num(65536),
    [hi |-> 32767, lo |-> 65535], [hi |-> 32768, lo |-> 0],
    [hi |-> 65535, lo |-> 65535] }

PrimSign(k, msg) ==
  /\ Cardinality(oracle) < MaxSigned
  /\ LET out == sign(msg, Pair(k))
     IN  /\ prim' = [op |-> "sign", key |-> k, msg |-> msg, out |-> out]
         /\ oracle' = IF out.ok THEN oracle \cup {BufferFromBase64(out.val)}
                                ELSE oracle
  /\ UNCHANGED <<fs, dirs, enc, dec, sent, tampered, issued, calls, parser, lexer>>

PrimVerify(pub, data, expected) ==
  /\ prim' = [op |-> "verify", pub |-> pub, data |-> data, expected |-> expected,
              recovered |-> publicDecrypt(pub, BufferFromBase64(data)).ok,
              res |-> verifyViaAddress(pub, data, expected)]
  /\ UNCHANGED <<fs, dirs, enc, dec, sent, oracle, tampered, issued, calls, parser, lexer>>

\* An 8-byte header written with toInt32 and read back as decryptFile does.
PrimHeader(la, lk) ==
  /\ LET file == toInt32(la) \o toInt32(lk)
     IN  prim' = [op |-> "header", la |-> la, lk |-> lk,
                  size_mac |-> readInt32BE(readChunkFromFile(file, 0, 4)),
                  size_key |-> readInt32BE(readChunkFromFile(file, 4, 8))]
  /\ UNCHANGED <<fs, dirs, enc, dec, sent, oracle, tampered, issued, calls, parser, lexer>>

InitPrim ==
  /\ fs = (SrcPath :> <<>>)
  /\ dirs = 0
  /\ enc = EncIdle
  /\ dec = DecIdle
  /\ sent = {}
  /\ oracle = {}
  /\ tampered = [kind |-> "none", offset |-> 0]
  /\ issued = {}
  /\ prim = [op |-> "none"]
  /\ calls = NoCalls
  /\ parser = ParserIdle
  /\ lexer = LexerIdle

NextPrim ==
  \/ \E k \in PubArgs, msg \in Messages : PrimSign(k, msg)
  \/ \E pub \in PubArgs, expected \in Messages,
        data \in StrayAuthenticators \cup {ToStringBase64(b) : b \in oracle} :
       PrimVerify(pub, data, expected)
  \/ \E la \in Lengths, lk \in Lengths : PrimHeader(la, lk)

SpecPrim == InitPrim /\ [][NextPrim]_vars

(***************************************************************************)
(* The conversions of SEA called on their own: prim holds the last call.   *)
(***************************************************************************)
\* SEA.encrypt / SEA.encryptForAddress on a message.
PrimEncrypt(k, msg) ==
  /\ oracle = {}
  /\ LET out == encryptForAddress(msg, k)
     IN  /\ prim' = [op |-> "encrypt", pub |-> k, msg |-> msg, out |-> out]
         /\ oracle' = IF out.ok THEN oracle \cup {BufferFromBase64(out.val)}
                                ELSE oracle
  /\ UNCHANGED <<fs, dirs, enc, dec, sent, tampered, issued, calls, parser, lexer>>

\* SEA.decrypt on a base64 string.
PrimDecrypt(k, data) ==
  /\ prim' = [op |-> "decrypt", key |-> k, data |-> data,
              out |-> decrypt(data, Pair(k))]
  /\ UNCHANGED <<fs, dirs, enc, dec, sent, oracle, tampered, issued, calls, parser, lexer>>

\* The chunks a read stream delivers when it cuts b after the positions in cuts.
RECURSIVE ChunksFrom(_, _, _, _)
ChunksFrom(b, i, cur, cuts) ==
  IF i > Len(b) THEN (IF cur = <<>> THEN <<>> ELSE <<cur>>)
  ELSE IF i \in cuts
    THEN <<Append(cur, b[i])>> \o ChunksFrom(b, i + 1, <<>>, cuts)
  ELSE ChunksFrom(b, i + 1, Append(cur, b[i]), cuts)

\* input.pipe(hash): every chunk in turn written to the hash.
RECURSIVE HashPipe(_, _)
HashPipe(h, chunks) ==
  IF chunks = <<>> THEN h
  ELSE HashPipe(Sha256Update(h, Head(chunks)), Tail(chunks))

\* A hashFile that digests the last chunk of the stream only.
hashFileLastChunk(chunks) ==
  ToStringBase64(Sha256Digest(
    IF chunks = <<>> THEN Sha256Init
    ELSE Sha256Update(Sha256Init, chunks[Len(chunks)])))

\* SEA.hashFile on a file the read stream delivers as chunks.
hashFileChunked(chunks) ==
  ToStringBase64(Sha256Digest(HashPipe(Sha256Init, chunks)))

\* Byte sequences to hash: empty, ASCII, a two-byte character, a byte that
\* is not UTF-8, a full block.
HashInputs ==
  { <<>>, <<72, 105>>, <<195, 169, 65>>, <<200, 65>>, Filled(<<>>, AesLen) }

\* SEA.hash of the bytes handed over as a string, and SEA.hashFile of a file
\* holding the bytes, read in chunks.
PrimHash(bytes, cuts) ==
  /\ LET chunks == ChunksFrom(bytes, 1, <<>>, cuts)
     IN  prim' = [op |-> "hash", bytes |-> bytes, chunks |-> chunks,
                  whole |-> hash(ToStringUtf8(bytes)),
                  streamed |-> hashFileChunked(chunks)]
  /\ UNCHANGED <<fs, dirs, enc, dec, sent, oracle, tampered, issued, calls, parser, lexer>>

\* scrypt(password, salt, keylen), idealised: keylen bytes determined by the
\* password and the salt.
Scrypt(password, salt, keylen) ==
  [j \in 1..keylen |-> (7 * Len(password) + 13 * Len(salt) + 31 * j
                         + (IF password = <<>> THEN 0 ELSE password[1])
                         + (IF salt = <<>> THEN 0 ELSE salt[1])) % 256]

\* SEA.work: .val is the base64 string.
work(data, salt, length) ==
  IF length >= 0 THEN Returned(ToStringBase64(Scrypt(data, salt, length)))
  ELSE Threw

Phrases == { <<>>, <<112, 119>> }
WorkLengths == { 0 - 1, 0, 1, 2, 8, 12 }

PrimWork(data, salt, length) ==
  /\ prim' = [op |-> "work", data |-> data, salt |-> salt, length |-> length,
              out |-> work(data, salt, length)]
  /\ UNCHANGED <<fs, dirs, enc, dec, sent, oracle, tampered, issued, calls, parser, lexer>>

\* Lines 186-192 of encryptFile: the one-time secret wrapped for `to`.
PrimWrap(to, key, iv) ==
  /\ oracle = {}
  /\ LET key_enc == encryptForAddress(
                      ToStringUtf8(key) \o <<58>> \o ToStringUtf8(iv), to)
         key_bin == BufferFromBase64(key_enc.val)
     IN  /\ key_enc.ok
         /\ prim' = [op |-> "wrap", to |-> to, key |-> key, iv |-> iv,
                     key_bin |-> key_bin]
         /\ oracle' = oracle \cup {key_bin}
  /\ UNCHANGED <<fs, dirs, enc, dec, sent, tampered, issued, calls, parser, lexer>>

\* Lines 330-337 of decryptFile on the wrapped secret of the last PrimWrap.
PrimUnwrap(receiver) ==
  /\ prim.op = "wrap"
  /\ LET key_enc_base64 == ToStringBase64(prim.key_bin)
         key_raw_utf8 == decrypt(key_enc_base64, Pair(receiver))
         parts == split(key_raw_utf8.val)
         ok == key_raw_utf8.ok /\ Len(parts) >= 2
     IN  prim' = [op |-> "unwrap", to |-> prim.to, receiver |-> receiver,
                  key |-> prim.key, iv |-> prim.iv, ok |-> ok,
                  key_out |-> IF ok THEN BufferFromUtf8(parts[1]) ELSE <<>>,
                  iv_out |-> IF ok THEN BufferFromUtf8(parts[2]) ELSE <<>>]
  /\ UNCHANGED <<fs, dirs, enc, dec, sent, oracle, tampered, issued, calls, parser, lexer>>

\* Authenticators and wrapped secrets of one and two bytes; ciphertexts.
FrameFields == { <<1>>, <<2, 3>> }
FrameContents == { <<>>, <<7>>, <<7, 8, 9>> }

\* Lines 286-320 of decryptFile on the envelope built from (a, k, c).
PrimFrame(a, k, c) ==
  /\ LET env == Compiled(Len(a), Len(k), a, k, c)
         size_mac == readInt32BE(readChunkFromFile(env, 0, 4))
         size_key == readInt32BE(readChunkFromFile(env, 4, 8))
         ok == /\ RangeOk(MacStart, MacEnd(size_mac))
               /\ RangeOk(KeyStart(size_mac), KeyEnd(size_mac, size_key))
               /\ ContentStart(size_mac, size_key) >= 0
     IN  prim' = [op |-> "frame", a |-> a, k |-> k, c |-> c, ok |-> ok,
                  mac |-> IF ok THEN ReadRange(env, MacStart, MacEnd(size_mac))
                                ELSE <<>>,
                  key |-> IF ok THEN ReadRange(env, KeyStart(size_mac),
                                               KeyEnd(size_mac, size_key))
                                ELSE <<>>,
                  content |-> IF ok THEN ReadFrom(env, ContentStart(size_mac, size_key))
                                    ELSE <<>>]
  /\ UNCHANGED <<fs, dirs, enc, dec, sent, oracle, tampered, issued, calls, parser, lexer>>

\* Lengths of an authenticator or wrapped secret, from one byte up to the
\* top of the unsigned 32-bit range.
FrameLengths ==
  { Num(1), Num(512), Num(65536), [hi |-> 32768, lo |-> 0],
    [hi |-> 65535, lo |-> 65535] }

\* Lines 286-320 of decryptFile on an envelope whose header holds la and lk:
\* the ranges the three read streams are opened with, as far as the call gets.
PrimRanges(la, lk) ==
  /\ LET header == toInt32(la) \o toInt32(lk)
         size_mac == readInt32BE(readChunkFromFile(header, 0, 4))
         size_key == readInt32BE(readChunkFromFile(header, 4, 8))
         macOk == RangeOk(MacStart, MacEnd(size_mac))
         keyOk == macOk /\ RangeOk(KeyStart(size_mac), KeyEnd(size_mac, size_key))
         contentOk == keyOk /\ ContentStart(size_mac, size_key) >= 0
     IN  prim' = [op |-> "ranges", la |-> la, lk |-> lk,
                  size_mac |-> size_mac, size_key |-> size_key,
                  ok |-> contentOk]
  /\ UNCHANGED <<fs, dirs, enc, dec, sent, oracle, tampered, issued, calls, parser, lexer>>

NextCodec ==
  \/ \E k \in PubArgs, msg \in Messages : PrimEncrypt(k, msg)
  \/ \E k \in PubArgs,
        data \in StrayAuthenticators \cup {ToStringBase64(b) : b \in oracle} :
       PrimDecrypt(k, data)
  \/ \E bytes \in HashInputs, cuts \in SUBSET (1..(AesLen - 1)) :
       PrimHash(bytes, cuts)
  \/ \E data \in Phrases, salt \in Phrases, length \in WorkLengths :
       PrimWork(data, salt, length)
  \/ \E to \in KeyIds, key \in RandomKeys, iv \in RandomIvs : PrimWrap(to, key, iv)
  \/ \E receiver \in KeyIds : PrimUnwrap(receiver)
  \/ \E a \in FrameFields, k \in FrameFields, c \in FrameContents : PrimFrame(a, k, c)
  \/ \E la \in FrameLengths, lk \in FrameLengths : PrimRanges(la, lk)

SpecCodec == InitPrim /\ [][NextCodec]_vars

(***************************************************************************)
(* Concurrent calls: every interleaving of the steps of the calls.         *)
(***************************************************************************)
NextCalls ==
  \/ \E c \in CallIds, ok \in BOOLEAN : EncStart(c, ok)
  \/ \E c \in CallIds, ok \in BOOLEAN : EncWrap(c, ok)
  \/ \E c \in CallIds, ok \in BOOLEAN : EncCipher(c, ok)
  \/ \E c \in CallIds, outcome \in HashOutcomes : EncSign(c, outcome)
  \/ \E c \in CallIds, ok \in BOOLEAN : EncCompile(c, ok)
  \/ \E c \in CallIds, ok \in BOOLEAN : DecStart(c, ok)
  \/ \E c \in CallIds, ok \in BOOLEAN : DecIsolate(c, ok)
  \/ \E c \in CallIds, outcome \in HashOutcomes : DecVerify(c, outcome)
  \/ \E c \in CallIds, ok \in BOOLEAN : DecKey(c, ok)
  \/ \E c \in CallIds, ok \in BOOLEAN : DecContent(c, ok)

SpecCalls == InitPrim /\ [][NextCalls]_vars

\* The event loop runs every continuation that is ready: a call that can
\* take a step eventually takes one.
FairCalls == \A c \in CallIds : WF_vars(CallStep(c))

SpecCallsFair == InitPrim /\ [][NextCalls]_vars /\ FairCalls

(***************************************************************************)
(* Parser.parse (src/unnamed/part_004).  A token is given by its type and  *)
(* its value.  Task objects live in parser.tasks and are named by their    *)
(* position there, so that content, children and list_item_head_stack hold *)
(* references to the same objects, as in the code.  An optional property   *)
(* is the set of its values: {} when it is undefined.                      *)
(***************************************************************************)
\* LIST_ITEM tokens given to one call of Parser.parse.
MaxTasks == 3

\* Leading-whitespace counts of the LIST_ITEM tokens.
Indents == {0, 1, 2}
\* props.id: undefined, empty, set.   props.ref: undefined, set.
IdProps == { {}, {""}, {"t1"} }
RefProps == { {}, {"r1"} }
\* Values of SECTION_HEAD tokens: the three sections and another word.
SectionLabels == {"metadata", "content", "progress", "todo"}
\* Keys and values of METADATA_ENTRY tokens.
MetadataKeys == {"name"}
MetadataValues == {"v1"}

\* JavaScript truthiness of an optional string.
Truthy(prop) == prop # {} /\ prop # {""}

ErrSectionHeader == "Unrecognized section header"
ErrPosition == "Invalid token metadata position."
ErrNoId == "ParserError: item has no id"
ErrImpossible == "This is impossible to happen."

\* A throw leaves the State as it is and ends Parser.parse.
ParserThrow(state, err) == [state EXCEPT !.pc = "threw", !.err = err]

\* Parser.parse, up to the loop over the tokens.
ParserParse(auto_id) ==
  /\ parser.pc = "idle"
  /\ parser' = [pc |-> "parsing", err |-> ErrNone,
                options |-> [auto_id |-> auto_id],
                list_item_head_stack |-> <<>>,
                section |-> "metadata",
                metadata |-> [id |-> "", version |-> "0.0.1", creator |-> "",
                              last_modified |-> "", sign |-> ""],
                content |-> <<>>,
                tasks |-> <<>>]
  /\ UNCHANGED <<fs, dirs, enc, dec, sent, oracle, tampered, issued, prim,
                 calls, lexer>>

parseSectionHeader(label, state) ==
  IF label # "metadata" /\ label # "content" /\ label # "progress"
  THEN ParserThrow(state, ErrSectionHeader)
  ELSE [state EXCEPT !.section = label]

parseMetadataEntry(key, value, state) ==
  IF state.section # "metadata"
  THEN ParserThrow(state, ErrPosition)
  ELSE [state EXCEPT !.metadata =
          [k \in DOMAIN @ \cup {key} |-> IF k = key THEN value ELSE @[k]]]

generateID == "uuid5"

\* list_item_head_stack.at(-1) and .pop().
Top(stack) == stack[Len(stack)]
Pop(stack) == SubSeq(stack, 1, Len(stack) - 1)

\* parent.task.children.push(task) when there is a parent, else
\* state.content.push(task).
Attach(state, stack, task) ==
  IF stack # <<>>
  THEN [state EXCEPT !.tasks[Top(stack).task].children = Append(@, task)]
  ELSE [state EXCEPT !.content = Append(@, task)]

\* The types given to the head that is about to be popped.
Retype(state, head) ==
  LET t == state.tasks[head.task]
      foreign == IF Truthy(t.attrs.ref) THEN "FOREIGN" ELSE t.type
      parent == IF Len(t.children) # 0 THEN "PARENT" ELSE foreign
  IN  [state EXCEPT !.tasks[head.task].type = parent]

\* The second exit of the loop, as a variant that also stops at a head of
\* the same indent.
StopsAtInclusive(current_indent, indent) == current_indent <= indent
\* The second exit of the loop: the new head is less indented.
StopsAt(current_indent, indent) == current_indent < indent

\* The while (true) loop: the state after it, the stack in it.
RECURSIVE PopHeads(_, _)
PopHeads(state, indent) ==
  LET stack == state.list_item_head_stack
      typed == IF stack # <<>> THEN Retype(state, Top(stack)) ELSE state
      popped == [typed EXCEPT !.list_item_head_stack = Pop(stack)]
      rest == popped.list_item_head_stack
      current_indent == IF rest # <<>> THEN Top(rest).indent ELSE 0
  IN  IF Len(rest) = 0 THEN popped
      ELSE IF StopsAt(current_indent, indent) THEN popped
      ELSE PopHeads(popped, indent)

parseListItem(token, state) ==
  IF state.section # "content" THEN ParserThrow(state, ErrPosition)
  ELSE
  LET id == IF token.props.id # {} THEN token.props.id
            ELSE IF state.options.auto_id THEN {generateID} ELSE {}
  IN
  IF ~Truthy(id) THEN ParserThrow(state, ErrNoId)
  ELSE
  LET task == Len(state.tasks) + 1
      created ==
        [state EXCEPT !.tasks = Append(@,
           [id |-> id, type |-> "BASIC",
            sequence_type |-> IF token.sequence_type = "ordered"
                              THEN "ORDERED" ELSE "UNORDERED",
            progress_type |-> IF token.progress_type = "universal"
                              THEN "UNIVERSAL" ELSE "EXISTENSIAL",
            children |-> <<>>, attrs |-> token.props,
            \* history: the indent of the token the task was made from
            indent |-> token.indent])]
      indent == token.indent
      stack == state.list_item_head_stack
      head_indent == IF stack # <<>> THEN Top(stack).indent ELSE 0
      head_task == IF stack # <<>> THEN Top(stack).task ELSE 0
      entry == [task |-> task, indent |-> indent]
  IN
  IF indent = head_indent
  THEN IF head_task = 0
       THEN [created EXCEPT !.content = Append(@, task),
                            !.list_item_head_stack = Append(@, entry)]
       ELSE [Attach(created, Pop(stack), task)
               EXCEPT !.list_item_head_stack = Append(Pop(stack), entry)]
  ELSE IF indent > head_indent
  THEN IF head_task = 0
       THEN [created EXCEPT !.content = Append(@, task),
                            !.list_item_head_stack = Append(@, entry)]
       ELSE [Attach(created, stack, task)
               EXCEPT !.list_item_head_stack = Append(@, entry)]
  ELSE IF head_task = 0 THEN ParserThrow(state, ErrImpossible)
  ELSE
  LET after == PopHeads(created, indent)
  IN  [Attach(after, after.list_item_head_stack, task)
         EXCEPT !.list_item_head_stack = Append(@, entry)]

\* One turn of the loop of Parser.parse on a SECTION_HEAD token.
ParseSectionHeader(label) ==
  /\ parser.pc = "parsing"
  /\ parser' = parseSectionHeader(label, parser)
  /\ UNCHANGED <<fs, dirs, enc, dec, sent, oracle, tampered, issued, prim,
                 calls, lexer>>

\* One turn of the loop of Parser.parse on a METADATA_ENTRY token.
ParseMetadataEntry(key, value) ==
  /\ parser.pc = "parsing"
  /\ parser' = parseMetadataEntry(key, value, parser)
  /\ UNCHANGED <<fs, dirs, enc, dec, sent, oracle, tampered, issued, prim,
                 calls, lexer>>

\* One turn of the loop of Parser.parse on a LIST_ITEM token.  The label
\* and the two kinds of list are copied to the task and decide nothing.
ParseListItem(indent, id, ref) ==
  /\ parser.pc = "parsing"
  /\ Len(parser.tasks) < MaxTasks
  /\ parser' = parseListItem(
                 [indent |-> indent, sequence_type |-> "ordered",
                  progress_type |-> "universal",
                  props |-> [id |-> id, ref |-> ref]], parser)
  /\ UNCHANGED <<fs, dirs, enc, dec, sent, oracle, tampered, issued, prim,
                 calls, lexer>>

\* The tokens are exhausted: Parser.parse returns the checklist.
ParserReturn ==
  /\ parser.pc = "parsing"
  /\ parser' = [parser EXCEPT !.pc = "returned"]
  /\ UNCHANGED <<fs, dirs, enc, dec, sent, oracle, tampered, issued, prim,
                 calls, lexer>>

NextParser ==
  \/ \E auto_id \in BOOLEAN : ParserParse(auto_id)
  \/ \E label \in SectionLabels : ParseSectionHeader(label)
  \/ \E key \in MetadataKeys, value \in MetadataValues :
       ParseMetadataEntry(key, value)
  \/ \E indent \in Indents, id \in IdProps, ref \in RefProps :
       ParseListItem(indent, id, ref)
  \/ ParserReturn

SpecParser == InitPrim /\ [][NextParser]_vars

(***************************************************************************)
(* The token rules (src/src/format/tokens.ts).  A string of the checklist  *)
(* format is a sequence of characters.  The result of RegExp.exec for an   *)
(* anchored rule is the position after the match, 0 when there is none;    *)
(* every quantifier of the rules is greedy, and the positions below are    *)
(* the ones the backtracking search finds first.                           *)
(***************************************************************************)
Space == {" ", "\n", "\t"}
Alnum == {"a", "c", "d", "e", "g", "m", "n", "o", "p", "r", "s", "t", "C", "1"}
Markers == {"-", "*", "."}
Chars == Space \cup Alnum \cup Markers \cup {"=", "|", ",", "{", "}", "_", "#"}
\* [^\s], [^\n\|], [^\}]
NotSpace == Chars \ Space
LabelChars == Chars \ {"\n", "|"}
NotClose == Chars \ {"}"}
\* [a-zA-Z0-9\-] and [a-zA-Z0-9\-\_]
InlineKeyChars == Alnum \cup {"-"}
InlineValueChars == Alnum \cup {"-", "_"}

\* The position after the longest run of characters of class from i on.
RECURSIVE Skip(_, _, _)
Skip(s, i, class) ==
  IF i <= Len(s) /\ s[i] \in class THEN Skip(s, i + 1, class) ELSE i

IsAt(s, i, c) == i >= 1 /\ i <= Len(s) /\ s[i] = c
HasAt(s, i, lit) ==
  i + Len(lit) - 1 <= Len(s) /\ SubSeq(s, i, i + Len(lit) - 1) = lit

\* String.substring(n), String.substring(0, n), trimStart, trim,
\* toLowerCase.
Drop(s, n) == SubSeq(s, n + 1, Len(s))
Take(s, n) == SubSeq(s, 1, n)
TrimStart(s) == Drop(s, Skip(s, 1, Space) - 1)
RECURSIVE TrimEnd(_)
TrimEnd(s) ==
  IF s # <<>> /\ s[Len(s)] \in Space THEN TrimEnd(Take(s, Len(s) - 1)) ELSE s
Trim(s) == TrimEnd(TrimStart(s))
ToLowerCase(s) == [i \in 1..Len(s) |-> IF s[i] = "C" THEN "c" ELSE s[i]]
\* The first two elements of String.split("=") of a string that has a "=".
SplitKey(s) == Take(s, Skip(s, 1, Chars \ {"="}) - 1)
SplitValue(s) ==
  LET eq == Skip(s, 1, Chars \ {"="})
  IN  SubSeq(s, eq + 1, Skip(s, eq + 1, Chars \ {"="}) - 1)
\* The number of elements of String.split("\n").
RECURSIVE SplitLines(_)
SplitLines(s) ==
  IF s = <<>> THEN 1
  ELSE (IF s[1] = "\n" THEN 1 ELSE 0) + SplitLines(Tail(s))

Eq3 == <<"=", "=", "=">>

\* SECTION_HEAD: /^\s*===\s*[a-zA-Z0-9]+\s*===/, in the order of its parts:
\* the second ===, the word from b, the first === at a.
SectionHeadClose(s, d) == IF HasAt(s, d, Eq3) THEN d + 3 ELSE 0
SectionHeadWord(s, b, c) ==
  IF c > b THEN SectionHeadClose(s, Skip(s, c, Space)) ELSE 0
SectionHeadOpen(s, a) ==
  IF HasAt(s, a, Eq3)
  THEN SectionHeadWord(s, Skip(s, a + 3, Space),
                       Skip(s, Skip(s, a + 3, Space), Alnum))
  ELSE 0
RuleSectionHead(s) == SectionHeadOpen(s, Skip(s, 1, Space))

\* METADATA_ENTRY: /^\s*[a-zA-Z0-9]+\s*=\s*[^\s]+/, in the order of its
\* parts: the value from d, the = at c, the key from a.
MetadataValue(s, d, e) == IF e > d THEN e ELSE 0
MetadataEquals(s, c) ==
  IF IsAt(s, c, "=")
  THEN MetadataValue(s, Skip(s, c + 1, Space),
                     Skip(s, Skip(s, c + 1, Space), NotSpace))
  ELSE 0
MetadataKey(s, a, b) == IF b > a THEN MetadataEquals(s, Skip(s, b, Space)) ELSE 0
RuleMetadataEntry(s) ==
  MetadataKey(s, Skip(s, 1, Space), Skip(s, Skip(s, 1, Space), Alnum))

\* One key = value of a property rule, from position i:
\*   \s*[keys]*\s*=\s*((\{[^\}]*})|([values]*)) and then \s*,? or ,?
\* in the order of its parts: the comma at d, the value from b with the
\* first } after it at close, the = at a.
EntryComma(s, d) == IF IsAt(s, d, ",") THEN d + 1 ELSE d
EntryRest(s, c, spaced) ==
  EntryComma(s, IF spaced THEN Skip(s, c, Space) ELSE c)
EntryValue(s, b, close, values) ==
  IF IsAt(s, b, "{") /\ IsAt(s, close, "}") THEN close + 1
  ELSE Skip(s, b, values)
EntryEquals(s, b, values, spaced) ==
  EntryRest(s, EntryValue(s, b, Skip(s, b + 1, NotClose), values), spaced)
EntryKey(s, a, values, spaced) ==
  IF IsAt(s, a, "=") THEN EntryEquals(s, Skip(s, a + 1, Space), values, spaced)
  ELSE 0
Entry(s, i, keys, values, spaced) ==
  EntryKey(s, Skip(s, Skip(s, Skip(s, i, Space), keys), Space), values, spaced)

\* ( ... )+ of it: e is the end of the entry at i, more the end of the
\* entries after it.
RECURSIVE Entries(_, _, _, _, _)
EntriesLonger(e, more) == IF more = 0 THEN e ELSE more
EntriesMore(s, e, keys, values, spaced) ==
  IF e = 0 THEN 0
  ELSE EntriesLonger(e, Entries(s, e, keys, values, spaced))
Entries(s, i, keys, values, spaced) ==
  EntriesMore(s, Entry(s, i, keys, values, spaced), keys, values, spaced)

\* One line of properties from position i: \s*\|( key = value )+\n*
PropLineEnd(s, e) == IF e = 0 THEN 0 ELSE Skip(s, e, {"\n"})
PropLineBar(s, a) ==
  IF IsAt(s, a, "|")
  THEN PropLineEnd(s, Entries(s, a + 1, Alnum, Alnum, TRUE))
  ELSE 0
PropLine(s, i) == PropLineBar(s, Skip(s, i, Space))

\* ( ... )* of it: never fails, may match nothing.
RECURSIVE PropLines(_, _)
PropLinesMore(s, i, g) == IF g = 0 THEN i ELSE PropLines(s, g)
PropLines(s, i) == PropLinesMore(s, i, PropLine(s, i))

\* LIST_ITEM: /^\s*[-*.]\s*[^\n\|]+( property line )*/.  The \s* after the
\* marker at a, which ends at w, gives back white space until the label has
\* a first character: the label starts at the last of starts.
Last(starts) == CHOOSE p \in starts : \A q \in starts : q <= p
ListItemLabel(s, starts) ==
  IF starts = {} THEN 0
  ELSE PropLines(s, Skip(s, Last(starts), LabelChars))
ListItemMarker(s, a, w) ==
  IF a <= Len(s) /\ s[a] \in Markers
  THEN ListItemLabel(s, { p \in (a + 1)..w :
                            p <= Len(s) /\ s[p] \in LabelChars })
  ELSE 0
RuleListItem(s) ==
  ListItemMarker(s, Skip(s, 1, Space), Skip(s, Skip(s, 1, Space) + 1, Space))

\* LIST_ITEM_TYPE: /^\s*[-*.]\s*/
ListItemTypeMarker(s, a) ==
  IF a <= Len(s) /\ s[a] \in Markers THEN Skip(s, a + 1, Space) ELSE 0
RuleListItemType(s) == ListItemTypeMarker(s, Skip(s, 1, Space))

\* LIST_ITEM_LABEL: /^[^\n\|]+/
ListItemLabelEnd(e) == IF e > 1 THEN e ELSE 0
RuleListItemLabel(s) == ListItemLabelEnd(Skip(s, 1, LabelChars))

\* LIST_ITEM_PROP_LINE is not anchored and can match nothing, so exec
\* matches at the start of the string: the position after the match.
RulePropLine(s) == PropLines(s, 1)

\* LIST_ITEM_PROP_INLINE is not anchored: exec finds the leftmost match.
\* The matched text, <<>> when there is no match (a match has a "=").
First(at) == CHOOSE i \in at : \A j \in at : i <= j
PropInlineText(s, i) ==
  SubSeq(s, i, Entries(s, i, InlineKeyChars, InlineValueChars, FALSE) - 1)
PropInlineAt(s, at) == IF at = {} THEN <<>> ELSE PropInlineText(s, First(at))
RulePropInline(s) ==
  PropInlineAt(s, { i \in 1..Len(s) :
                      Entries(s, i, InlineKeyChars, InlineValueChars, FALSE) # 0 })

(***************************************************************************)
(* The Tokenizer (src/src/format/tokens.ts).  A tokenizer returns          *)
(* [kind |-> "none"] for undefined, a token, or a throw; kind "loop" is a  *)
(* loop whose iteration leaves its own state as it found it, and so runs   *)
(* for ever.  A dictionary is the set of its <<key, value>> pairs.         *)
(***************************************************************************)
WMetadata == <<"m", "e", "t", "a", "d", "a", "t", "a">>
WContent == <<"c", "o", "n", "t", "e", "n", "t">>
WProgress == <<"p", "r", "o", "g", "r", "e", "s", "s">>
WTodo == <<"t", "o", "d", "o">>

ErrSection == "Unrecognized section named"
ErrItemType == "Can not determine item type"
ErrMarker == "Unrecognized marker"
ErrItemLabel == "Can not determine item label"
ErrUnknown == "Unknown token"

None == [kind |-> "none"]
Throw(err) == [kind |-> "throw", err |-> err]

SectionName(label) ==
  IF label = WMetadata THEN "metadata"
  ELSE IF label = WContent THEN "content" ELSE "progress"

\* sectionStart, in the order of its steps: the label, the match.
SectionStartLabel(raw, label) ==
  IF label # WMetadata /\ label # WContent /\ label # WProgress
  THEN Throw(ErrSection)
  ELSE [kind |-> "token", section |-> SectionName(label),
        token |-> [type |-> "SECTION_HEAD", raw |-> raw,
                   value |-> [label |-> label]]]
SectionStartTrimmed(raw, raw_trimmed) ==
  SectionStartLabel(raw,
    ToLowerCase(Trim(SubSeq(raw_trimmed, 4, Len(raw_trimmed) - 3))))
SectionStartCap(stream, cap) ==
  IF cap = 0 THEN None
  ELSE SectionStartTrimmed(Take(stream, cap - 1), Trim(Take(stream, cap - 1)))
sectionStart(stream, state) == SectionStartCap(stream, RuleSectionHead(stream))

\* The early return of metadataEntry, as a variant that never returns early.
MetadataGuardNever(state) == FALSE
\* The early return of metadataEntry.
MetadataGuard(state) == state.section # "metadata"

MetadataEntryRaw(state, raw) ==
  [kind |-> "token", section |-> state.section,
   token |-> [type |-> "METADATA_ENTRY", raw |-> raw,
              value |-> [key |-> Trim(SplitKey(raw)),
                         value |-> Trim(SplitValue(raw))]]]
MetadataEntryCap(stream, state, cap) ==
  IF cap = 0 THEN None ELSE MetadataEntryRaw(state, Take(stream, cap - 1))
metadataEntry(stream, state) ==
  IF MetadataGuard(state) THEN None
  ELSE MetadataEntryCap(stream, state, RuleMetadataEntry(stream))

\* dic[key] = value
Put(dic, key, value) == { p \in dic : p[1] # key } \cup { <<key, value>> }
\* for (const k in token.value) dic[k] = token.value[k]
PutAll(dic, more) ==
  { p \in dic : \A q \in more : q[1] # p[1] } \cup more

\* The loop of listInlineProps, in the order of its steps: the braces of
\* the value, the comma of the entry, the entry, the match.
InlineValue(v) ==
  IF v # <<>> /\ v[1] = "{" /\ v[Len(v)] = "}"
  THEN SubSeq(v, 2, Len(v) - 1) ELSE v
InlineComma(entry) ==
  IF entry # <<>> /\ entry[Len(entry)] = ","
  THEN Trim(Take(entry, Len(entry) - 1)) ELSE entry
InlineEntry(dic, entry) ==
  Put(dic, Trim(SplitKey(entry)), InlineValue(Trim(SplitValue(entry))))
RECURSIVE InlineLoop(_, _)
InlineCap(stream, dic, cap) ==
  IF cap = <<>> THEN Throw(ErrUnknown)
  ELSE InlineLoop(Drop(stream, Len(cap)),
                  InlineEntry(dic, InlineComma(Trim(cap))))
InlineLoop(stream, dic) ==
  IF Len(stream) = 0 THEN [kind |-> "token", value |-> dic]
  ELSE InlineCap(stream, dic, RulePropInline(stream))

listInlineProps(stream) == InlineLoop(stream, {})

\* The loop of listLineProps, in the order of its steps: the properties of
\* the line, the line without its bar, the match.  When the rule matches
\* nothing, the iteration removes nothing from stream and adds nothing to
\* dic.
RECURSIVE LineLoop(_, _)
LineToken(stream, dic, raw, token) ==
  IF token.kind = "throw" THEN token
  ELSE LineLoop(Drop(stream, Len(raw)), PutAll(dic, token.value))
LineBar(line) ==
  Trim(IF line # <<>> /\ line[1] = "|" THEN Tail(line) ELSE line)
LineRaw(stream, dic, raw) ==
  IF raw = <<>> THEN [kind |-> "loop"]
  ELSE LineToken(stream, dic, raw, listInlineProps(LineBar(Trim(raw))))
LineLoop(stream, dic) ==
  IF Len(stream) = 0 THEN [kind |-> "token", value |-> dic]
  ELSE LineRaw(stream, dic, Take(stream, RulePropLine(stream) - 1))

listLineProps(stream) == LineLoop(stream, {})

\* listItem, in the order of its steps: the token, the properties, the
\* label, the marker, the match.
ListItemToken(state, raw, marker, label, props) ==
  [kind |-> "token", section |-> state.section,
   token |->
     [type |-> "LIST_ITEM", raw |-> raw,
      value |->
        [sequence_type |-> IF marker = <<"-">> THEN "ordered" ELSE "unordered",
         progress_type |-> IF marker = <<"-">> THEN "universal"
                           ELSE IF marker = <<"*">> THEN "universal"
                           ELSE "existential",
         indent |-> Len(raw) - Len(TrimStart(raw)),
         label |-> label,
         props |-> props]]]
ListItemProps(state, raw, marker, label, item_props) ==
  IF item_props.kind # "token" THEN item_props
  ELSE ListItemToken(state, raw, marker, label, item_props.value)
ListItemLabelled(state, raw, marker, src, item_label) ==
  IF item_label = 0 THEN Throw(ErrItemLabel)
  ELSE ListItemProps(state, raw, marker, Trim(Take(src, item_label - 1)),
                     listLineProps(Drop(src, item_label - 1)))
ListItemMarked(state, raw, marker, src) ==
  IF marker # <<"-">> /\ marker # <<".">> /\ marker # <<"*">>
  THEN Throw(ErrMarker)
  ELSE ListItemLabelled(state, raw, marker, src, RuleListItemLabel(src))
ListItemTyped(state, raw, item_type) ==
  IF item_type = 0 THEN Throw(ErrItemType)
  ELSE ListItemMarked(state, raw, Trim(Take(raw, item_type - 1)),
                      Drop(raw, item_type - 1))
ListItemRaw(state, raw) == ListItemTyped(state, raw, RuleListItemType(raw))
ListItemCap(stream, state, cap) ==
  IF cap = 0 THEN None ELSE ListItemRaw(state, Take(stream, cap - 1))
listItem(stream, state) ==
  IF state.section # "content" THEN None
  ELSE ListItemCap(stream, state, RuleListItem(stream))

(***************************************************************************)
(* Lexer.lex (src/unnamed/part_002), one action per way through one turn   *)
(* of its loop.  lexer.input is history: the string lex was called with;   *)
(* the field at of a token is history too: state.section when the token    *)
(* was pushed.                                                             *)
(***************************************************************************)
\* Pieces in the strings given to Lexer.lex, after their first part.
MaxPieces == 3

Heads ==
  { <<>>, Eq3 \o WContent \o Eq3, Eq3 \o WTodo \o Eq3,
    <<" ">> \o Eq3 \o <<" ", "C">> \o Tail(WContent) \o <<"\t">> \o Eq3,
    <<"a", "=", "1", " ">> \o Eq3 \o WContent \o Eq3 }

Pieces ==
  { <<"-", " ", "a">>, <<"|", "a", "=", "1">>, <<"a", "=", "1">>,
    <<"=", "{", "a", " ", "}">>, <<"\n">>, <<" ">>, <<",">>, <<"*">>,
    Eq3 \o WMetadata \o Eq3 }

\* The pieces of a sequence of pieces, one after the other.
RECURSIVE Flatten(_)
Flatten(ps) == IF ps = <<>> THEN <<>> ELSE ps[1] \o Flatten(Tail(ps))

Inputs ==
  { h \o Flatten(ps) :
      h \in Heads, ps \in UNION { [1..n -> Pieces] : n \in 0..MaxPieces } }

\* Lexer.lex(data), up to its loop.
LexerLex ==
  /\ lexer.pc = "idle"
  /\ \E data \in Inputs :
       lexer' = [pc |-> "lexing", err |-> ErrNone, input |-> data,
                 data |-> data,
                 state |-> [section |-> "metadata", line |-> 0],
                 tokens |-> <<>>]
  /\ UNCHANGED <<fs, dirs, enc, dec, sent, oracle, tampered, issued, prim,
                 calls, parser>>

\* _updateState after a tokenizer that returned a token.
UpdateState(lex, out) ==
  [lex EXCEPT !.data = Drop(@, Len(out.token.raw)),
              !.state = [section |-> out.section,
                         line |-> @.line + SplitLines(out.token.raw)],
              !.tokens = Append(@, [type |-> out.token.type,
                                    raw |-> out.token.raw,
                                    value |-> out.token.value,
                                    at |-> out.section])]

\* The end of a turn whose tokenizer returned a token, threw, or hangs.
Outcome(lex, out) ==
  IF out.kind = "token" THEN UpdateState(lex, out)
  ELSE IF out.kind = "throw" THEN [lex EXCEPT !.pc = "threw", !.err = out.err]
  ELSE [lex EXCEPT !.pc = "looping"]

\* One turn of the loop: the first tokenizer that does not return
\* undefined, and what it does.
TurnListItem(out) ==
  IF out.kind # "none" THEN [by |-> "listItem", out |-> out]
  ELSE [by |-> "none", out |-> Throw(ErrUnknown)]
TurnMetadataEntry(data, state, out) ==
  IF out.kind # "none" THEN [by |-> "metadataEntry", out |-> out]
  ELSE TurnListItem(listItem(data, state))
TurnSectionStart(data, state, out) ==
  IF out.kind # "none" THEN [by |-> "sectionStart", out |-> out]
  ELSE TurnMetadataEntry(data, state, metadataEntry(data, state))
Turn(data, state) == TurnSectionStart(data, state, sectionStart(data, state))

\* The turn is tokenizer's.
LexTurnBy(tokenizer, turn) ==
  /\ turn.by = tokenizer
  /\ lexer' = Outcome(lexer, turn.out)

LexSectionStart ==
  /\ lexer.pc = "lexing"
  /\ lexer.data # <<>>
  /\ LexTurnBy("sectionStart", Turn(lexer.data, lexer.state))
  /\ UNCHANGED <<fs, dirs, enc, dec, sent, oracle, tampered, issued, prim,
                 calls, parser>>

LexMetadataEntry ==
  /\ lexer.pc = "lexing"
  /\ lexer.data # <<>>
  /\ LexTurnBy("metadataEntry", Turn(lexer.data, lexer.state))
  /\ UNCHANGED <<fs, dirs, enc, dec, sent, oracle, tampered, issued, prim,
                 calls, parser>>

LexListItem ==
  /\ lexer.pc = "lexing"
  /\ lexer.data # <<>>
  /\ LexTurnBy("listItem", Turn(lexer.data, lexer.state))
  /\ UNCHANGED <<fs, dirs, enc, dec, sent, oracle, tampered, issued, prim,
                 calls, parser>>

\* No tokenizer returned a token: throw new SyntaxError.
LexUnknown ==
  /\ lexer.pc = "lexing"
  /\ lexer.data # <<>>
  /\ LexTurnBy("none", Turn(lexer.data, lexer.state))
  /\ UNCHANGED <<fs, dirs, enc, dec, sent, oracle, tampered, issued, prim,
                 calls, parser>>

LexReturn ==
  /\ lexer.pc = "lexing"
  /\ lexer.data = <<>>
  /\ lexer' = [lexer EXCEPT !.pc = "returned"]
  /\ UNCHANGED <<fs, dirs, enc, dec, sent, oracle, tampered, issued, prim,
                 calls, parser>>

NextLexer ==
  \/ LexerLex
  \/ LexSectionStart
  \/ LexMetadataEntry
  \/ LexListItem
  \/ LexUnknown
  \/ LexReturn

SpecLexer == InitPrim /\ [][NextLexer]_vars

(***************************************************************************)
(* Properties.                                                             *)
(***************************************************************************)
\* The envelope on disk is the one encryptFile wrote.
Genuine == enc.pc = "done" /\ tampered.kind = "none"
\* decryptFile has returned or thrown.
DecEnded == dec.pc \in {"done", "failed"}
\* decryptFile was given the public key of the envelope's sender.
RightSender == dec.sender = enc.from_key.pub
\* decryptFile was given the key pair the secret was wrapped for.
RightReceiver == dec.receiver_key.pub = enc.to
\* The region of the envelope a 0-indexed offset falls in.
InAuthenticator(o) == o >= 8 /\ o < 8 + enc.size_mac
InCiphertext(o) == o >= 8 + enc.size_mac + enc.size_key

\* C1: decryptFile, given the unmodified envelope of encryptFile(src, env, A,
\* B.pub), the sender's public key and the recipient's pair, completes
\* successfully and leaves in the destination exactly the source's content.
C1_RoundTrip ==
  (Genuine /\ DecEnded /\ RightSender /\ RightReceiver)
    => (dec.pc = "done" /\ Exists(OutPath) /\ fs[OutPath] = fs[SrcPath])

\* C2: decryptFile decrypts the wrapped secret and the ciphertext only after
\* verify has returned true; when verify returns false the call fails with
\* the integrity error and no decryption step is performed.
C2_AuthenticateThenDecrypt ==
  /\ (dec.did \cap {"privateDecrypt", "decipher"} # {})
       => ("verify" \in dec.did /\ dec.is_safe)
  /\ ("verify" \in dec.did /\ ~dec.is_safe)
       => (dec.pc = "failed" /\ dec.err = ErrIntegrity /\ dec.did = {"verify"})

\* C2 witness: a call that verified successfully and then ran both
\* decryption steps.
C2_Witness ==
  /\ dec.pc = "done"
  /\ dec.is_safe
  /\ dec.did = {"verify", "privateDecrypt", "decipher"}

\* C3: after one bit of the authenticator region or of the ciphertext region
\* of encryptFile's envelope is changed, decryptFile fails with the
\* integrity error and writes no destination.
C3_TamperDetected ==
  (/\ enc.pc = "done"
   /\ tampered.kind = "bit"
   /\ InAuthenticator(tampered.offset) \/ InCiphertext(tampered.offset)
   /\ DecEnded)
    => (dec.pc = "failed" /\ dec.err = ErrIntegrity /\ ~Exists(OutPath))

\* C3 witness: a bit of the ciphertext region was flipped and decryptFile,
\* called with the right keys, failed with the integrity error.
C3_Witness ==
  /\ tampered.kind = "bit"
  /\ InCiphertext(tampered.offset)
  /\ RightSender /\ RightReceiver
  /\ dec.pc = "failed"
  /\ dec.err = ErrIntegrity

\* C4: whenever decryptFile(env, out, S.pub, R) completes successfully, the
\* content of out is a plaintext the holder of S's private key gave to
\* encryptFile.
C4_OriginAuthentic ==
  dec.pc = "done"
    => \E s \in sent : s.from = dec.sender /\ s.plain = fs[OutPath]

\* C5: decryptFile on the unmodified envelope, with the sender's public key
\* and a key pair other than the recipient's, fails at the decryption of the
\* wrapped secret, after the integrity check has passed.
C5_WrongRecipient ==
  (Genuine /\ DecEnded /\ RightSender /\ ~RightReceiver)
    => (dec.pc = "failed" /\ dec.is_safe /\ dec.err = DecryptFailure)

\* C6: the destination of a successful encryptFile is the 4-byte big-endian
\* length of the authenticator, the 4-byte big-endian length of the wrapped
\* secret, the authenticator, the wrapped secret and the ciphertext, in this
\* order and with nothing else.
C6_Layout ==
  Genuine =>
    LET env == fs[EnvPath]
        mac == fs[<<enc.dir, "mac.txt">>]
        key == fs[<<enc.dir, "key.txt">>]
        content == fs[<<enc.dir, "content.aes">>]
        la == Len(mac)
        lk == Len(key)
    IN  /\ Len(env) = 8 + la + lk + Len(content)
        /\ env[1] * 16777216 + env[2] * 65536 + env[3] * 256 + env[4] = la
        /\ env[5] * 16777216 + env[6] * 65536 + env[7] * 256 + env[8] = lk
        /\ SubSeq(env, 9, 8 + la) = mac
        /\ SubSeq(env, 9 + la, 8 + la + lk) = key
        /\ SubSeq(env, 9 + la + lk, Len(env)) = content
        /\ mac \in oracle /\ mac[1] = SigTag(enc.from_key.priv)
        /\ key \in oracle /\ key[1] = EncTag(enc.to)

\* C6 witness: an envelope whose ciphertext is longer than one block.
C6_Witness ==
  /\ Genuine
  /\ Len(fs[<<enc.dir, "content.aes">>]) > AesLen
  /\ Len(fs[<<enc.dir, "mac.txt">>]) # Len(fs[<<enc.dir, "key.txt">>])

\* C7: for every length L in 0..2^32-1, the value decryptFile decodes from a
\* header field equals the value L that toInt32 encoded into it.
C7_HeaderRoundTrip ==
  prim.op = "header"
    => /\ prim.size_mac >= 0 /\ Num(prim.size_mac) = prim.la
       /\ prim.size_key >= 0 /\ Num(prim.size_key) = prim.lk

\* C8: verify returns a boolean and never raises, whatever the key, the
\* authenticator and the expected string; when the message cannot be
\* recovered from the authenticator the result is false.
C8_VerifyNeverRaises ==
  prim.op = "verify"
    => /\ ~prim.res.threw
       /\ prim.res.val \in BOOLEAN
       /\ ~prim.recovered => prim.res.val = FALSE

\* C8 witness: verify called with a key that is no key and with an
\* authenticator that is not base64, returning false.
C8_Witness ==
  /\ prim.op = "verify"
  /\ prim.pub = 0
  /\ prim.data = <<42, 42>>
  /\ ~prim.recovered
  /\ prim.res = [threw |-> FALSE, val |-> FALSE]

\* C9: a failed decryptFile reports the integrity error exactly when verify
\* returned false; a failure of the decryption of the wrapped secret or of
\* the ciphertext is reported by another error.
C9_DistinctErrors ==
  dec.pc = "failed"
    => /\ (dec.err = ErrIntegrity) <=> ("verify" \in dec.did /\ ~dec.is_safe)
       /\ ("privateDecrypt" \in dec.did) => dec.err # ErrIntegrity

\* C9 witness: the integrity check passed and the wrapped secret could not
\* be decrypted.
C9_Witness ==
  /\ dec.pc = "failed"
  /\ dec.is_safe
  /\ dec.did = {"verify", "privateDecrypt"}
  /\ dec.err = DecryptFailure

\* C10: for every key pair K and message M that sign accepts,
\* verify(K.pub, sign(M, K.priv), M) returns true.
C10_SignatureSound ==
  (/\ prim.op = "verify"
   /\ sign(prim.expected, Pair(prim.pub)).ok
   /\ prim.data = sign(prim.expected, Pair(prim.pub)).val
   /\ BufferFromBase64(prim.data) \in oracle)
    => prim.res.val = TRUE

\* C11: for every key pair K and messages M' # M,
\* verify(K.pub, sign(M, K.priv), M') returns false.
C11_SignatureComplete ==
  prim.op = "verify"
    => \A m \in Messages :
         (/\ m # prim.expected
          /\ sign(m, Pair(prim.pub)).ok
          /\ prim.data = sign(m, Pair(prim.pub)).val
          /\ BufferFromBase64(prim.data) \in oracle)
           => prim.res.val = FALSE

\* C12: for every plaintext P and key pair K, decrypt(encrypt(P, K.pub), K)
\* returns exactly P.
C12_AsymmetricRoundTrip ==
  prim.op = "decrypt"
    => \A m \in Messages :
         (/\ encryptForAddress(m, prim.key).ok
          /\ prim.data = encryptForAddress(m, prim.key).val
          /\ BufferFromBase64(prim.data) \in oracle)
           => (prim.out.ok /\ prim.out.val = m)

\* The bytes are the UTF-8 encoding of a string.
IsUtf8(bytes) == BufferFromUtf8(ToStringUtf8(bytes)) = bytes

C14_DerivedSize ==
  (prim.op = "work" /\ prim.out.ok)
    => 8 * Len(BufferFromBase64(prim.out.val)) = prim.length

\* C17: the key and iv decryptFile recovers from the wrapped secret, with the
\* recipient's key pair, are byte for byte the key and iv encryptFile used.
C17_SecretRoundTrip ==
  (prim.op = "unwrap" /\ prim.receiver = prim.to)
    => (prim.ok /\ prim.key_out = prim.key /\ prim.iv_out = prim.iv)

\* C18: for every authenticator a, wrapped secret k and ciphertext c with
\* L_a >= 1 and L_k >= 1, the ranges decryptFile extracts from the envelope
\* built from (a, k, c) are [8, 8+L_a), [8+L_a, 8+L_a+L_k) and
\* [8+L_a+L_k, EOF) and hold exactly a, k and c.
C18_FramingRoundTrip ==
  /\ prim.op = "frame"
       => (prim.ok /\ prim.mac = prim.a /\ prim.key = prim.k
                   /\ prim.content = prim.c)
  /\ prim.op = "ranges"
       => (/\ prim.ok
           /\ prim.size_mac >= 1 /\ Num(prim.size_mac) = prim.la
           /\ prim.size_key >= 1 /\ Num(prim.size_key) = prim.lk)

\* The staged files the call c has written or read.
Touched(c) == calls[c].wrote \cup calls[c].read

\* C15: in every interleaving of concurrent encryptFile and decryptFile
\* calls, each call's staging directory differs from every other call's and
\* no staged file is written or read by more than one call.
C15_Isolation ==
  \A c1 \in CallIds, c2 \in CallIds :
    c1 # c2 =>
      /\ (calls[c1].dir # 0 /\ calls[c2].dir # 0) => calls[c1].dir # calls[c2].dir
      /\ Touched(c1) \cap Touched(c2) = {}

\* C15 witness: an encryptFile and a decryptFile call in flight together,
\* each with staged files written and read.
C15_Witness ==
  \E c1 \in CallIds, c2 \in CallIds :
    /\ calls[c1].kind = "encryptFile" /\ calls[c1].pc = "compile"
    /\ calls[c2].kind = "decryptFile" /\ calls[c2].pc = "key"
    /\ calls[c1].read # {} /\ calls[c2].read # {}

\* C16: the message encryptFile signs for a staged ciphertext C is the value
\* decryptFile passes to verify as expected for the same C, so the integrity
\* check accepts a genuine unmodified envelope checked against the sender.
C16_SignedIsVerified ==
  (Genuine /\ RightSender /\ "verify" \in dec.did)
    => LET C == fs[<<dec.dir, "content.aes">>]
       IN  /\ C = fs[<<enc.dir, "content.aes">>]
           /\ ToStringUtf8(BufferFromBase64(hashFile(C))) = hashFile(C)
           /\ dec.is_safe

\* C19: every call of encryptFile or decryptFile eventually completes,
\* successfully or by failing.
C19_EventuallyCompletes ==
  \A c \in CallIds :
    (calls[c].pc # "idle") ~> (calls[c].pc \in {"done", "failed"})

\* C20: once an encryptFile or decryptFile call has completed, the files it
\* staged no longer exist.
C20_StagingRemoved ==
  /\ enc.pc \in {"done", "failed"} => \A p \in DOMAIN fs : p[1] # enc.dir
  /\ (dec.pc \in {"done", "failed"} /\ dec.dir # 0)
       => \A p \in DOMAIN fs : p[1] # dec.dir

\* needle occurs in f as a run of consecutive bytes.
Contains(f, needle) ==
  \E i \in 0..(Len(f) - Len(needle)) :
    SubSeq(f, i + 1, i + Len(needle)) = needle

\* f is the output of an asymmetric encryption.
IsWrapped(f) ==
  f \in oracle /\ Len(f) >= 1 /\ \E k \in KeyIds : f[1] = EncTag(k)

\* f holds neither the raw key, nor the raw iv, nor the source plaintext.
NoClear(f) ==
  /\ enc.key # <<>> => (~Contains(f, enc.key) /\ ~Contains(f, enc.iv))
  /\ fs[SrcPath] # <<>> => ~Contains(f, fs[SrcPath])

\* C21: in every state of encryptFile and decryptFile no staged file and no
\* envelope holds the raw key or iv (only their wrapped form) or the source
\* plaintext.
C21_SecretNeverClear ==
  tampered.kind = "none" =>
    /\ \A p \in DOMAIN fs \ {SrcPath, OutPath, EnvPath} :
         IsWrapped(fs[p]) \/ NoClear(fs[p])
    /\ Exists(EnvPath) =>
         /\ IsWrapped(EnvKey(fs[EnvPath]))
         /\ NoClear(SubSeq(fs[EnvPath], 1, 8))
         /\ NoClear(EnvMac(fs[EnvPath]))
         /\ NoClear(EnvContent(fs[EnvPath]))

\* C21 witness: a source longer than a block was encrypted and decryptFile
\* has staged the three fields of the envelope.
C21_Witness ==
  /\ Genuine
  /\ Len(fs[SrcPath]) > AesLen
  /\ DecEnded
  /\ <<dec.dir, "key.enc">> \in DOMAIN fs
  /\ <<dec.dir, "content.aes">> \in DOMAIN fs

\* C22: encryptFile creates its destination only after staging, wrapping,
\* encryption, hashing and signing have all succeeded; decryptFile creates
\* its destination only after the integrity check returned true and the
\* wrapped secret was decrypted.
C22_DestinationUntouched ==
  /\ Exists(EnvPath) =>
       /\ enc.pc = "done"
       /\ {<<enc.dir, "key.txt">>, <<enc.dir, "content.aes">>,
           <<enc.dir, "mac.txt">>} \subseteq DOMAIN fs
  /\ Exists(OutPath) =>
       /\ dec.is_safe
       /\ {"verify", "privateDecrypt"} \subseteq dec.did
       /\ dec.err \notin {ErrIntegrity, DecryptFailure, ErrArgType, ErrKeyLength}

\* C22 witness: decryptFile failed at the decryption of the wrapped secret
\* and there is no destination file.
C22_Witness ==
  /\ Exists(EnvPath)
  /\ dec.pc = "failed"
  /\ dec.err = DecryptFailure
  /\ ~Exists(OutPath)

\* The lengths the header of env declares, read from its first 8 bytes.
DeclaredLen(env) ==
  8 + Uint32(readChunkFromFile(env, 0, 4)) + Uint32(readChunkFromFile(env, 4, 8))

\* C23: for every source file shorter than 8 + L_a + L_k as its header
\* declares, files shorter than the header included, decryptFile fails and
\* writes no destination file.
C23_TruncatedFails ==
  (Exists(EnvPath) /\ DecEnded /\ Len(fs[EnvPath]) < DeclaredLen(fs[EnvPath]))
    => (dec.pc = "failed" /\ ~Exists(OutPath))

\* Where task t hangs in the tree: <<0, i>> for content[i], <<p, i>> for
\* the i-th child of task p.
Places(t) ==
  { <<0, i>> : i \in { i \in 1..Len(parser.content) : parser.content[i] = t } }
  \cup UNION { { <<p, i>> : i \in { i \in 1..Len(parser.tasks[p].children) :
                                      parser.tasks[p].children[i] = t } } :
               p \in 1..Len(parser.tasks) }
\* The nearest task before t whose indent is smaller than t's; 0 if none.
Nearest(t) ==
  LET less == { j \in 1..(t - 1) :
                  parser.tasks[j].indent < parser.tasks[t].indent }
  IN  IF less = {} THEN 0 ELSE CHOOSE j \in less : \A k \in less : k <= j

\* C24: after every token Parser.parse has processed, each task hangs at
\* exactly one place of the tree, which is under the nearest preceding task
\* of strictly smaller indent, or in content when there is no such task, and
\* the indents on list_item_head_stack increase strictly from bottom to top.
C24_Nesting ==
  parser.pc # "idle" =>
    /\ \A t \in 1..Len(parser.tasks) :
         /\ Cardinality(Places(t)) = 1
         /\ \A place \in Places(t) : place[1] = Nearest(t)
    /\ \A i \in 1..(Len(parser.list_item_head_stack) - 1) :
         parser.list_item_head_stack[i].indent
           < parser.list_item_head_stack[i + 1].indent

\* Indents 1, 2, 1: the first task is top-level although indented, the
\* last token pops both heads and lands in content as well.
C24_Witness ==
  /\ parser.pc = "returned"
  /\ Len(parser.tasks) >= 3
  /\ parser.tasks[1].indent = 1
  /\ parser.tasks[2].indent = 2
  /\ parser.tasks[3].indent = 1
  /\ parser.tasks[1].children = <<2>>
  /\ SubSeq(parser.content, 1, 2) = <<1, 3>>

\* C25: in the tree Parser.parse returns, a task with a child has type
\* PARENT, a childless task with a ref attribute has type FOREIGN, and every
\* other task has type BASIC.
C25_TaskTyping ==
  parser.pc = "returned" =>
    \A t \in 1..Len(parser.tasks) :
      parser.tasks[t].type =
        IF parser.tasks[t].children # <<>> THEN "PARENT"
        ELSE IF parser.tasks[t].attrs.ref # {} THEN "FOREIGN"
        ELSE "BASIC"

\* The texts of the tokens, one after the other.
RECURSIVE Raws(_)
Raws(tokens) ==
  IF tokens = <<>> THEN <<>> ELSE tokens[1].raw \o Raws(Tail(tokens))

\* The tokens so far are non-empty, make up the consumed part of the input,
\* and were pushed in the section their type belongs to.
LexedSoFar ==
  lexer.pc # "idle" =>
    /\ Raws(lexer.tokens) \o lexer.data = lexer.input
    /\ \A i \in 1..Len(lexer.tokens) :
         /\ lexer.tokens[i].raw # <<>>
         /\ lexer.tokens[i].type = "METADATA_ENTRY"
              => lexer.tokens[i].at = "metadata"
         /\ lexer.tokens[i].type = "LIST_ITEM"
              => lexer.tokens[i].at = "content"

\* A turn of the loop ends: it throws and pushes nothing, or it pushes one
\* token and removes its text, which is not empty, from the front of data.
LexTurn ==
  lexer.pc = "lexing" /\ lexer.data # <<>> =>
    \/ lexer'.pc = "threw" /\ lexer'.tokens = lexer.tokens
    \/ /\ lexer'.pc = "lexing"
       /\ Len(lexer'.tokens) = Len(lexer.tokens) + 1
       /\ SubSeq(lexer'.tokens, 1, Len(lexer.tokens)) = lexer.tokens
       /\ lexer'.tokens[Len(lexer'.tokens)].raw # <<>>
       /\ lexer.data = lexer'.tokens[Len(lexer'.tokens)].raw \o lexer'.data
       /\ Len(lexer'.data) < Len(lexer.data)

\* C26: Lexer.lex ends on every input: every turn of its loop ends, and it
\* throws, or pushes exactly one token whose text is a non-empty prefix of
\* the remaining input and removes that prefix, so that the remaining input
\* gets shorter with every turn and the texts of the tokens make up the
\* consumed input; METADATA_ENTRY tokens are pushed only in section
\* metadata, LIST_ITEM tokens only in section content.
C26_LexerProgress == []LexedSoFar /\ [][LexTurn]_vars

\* lex has returned a metadata entry, a section head, and a list item that
\* has a line of properties.
C26_Witness ==
  /\ lexer.pc = "returned"
  /\ \E i, j, k \in 1..Len(lexer.tokens) :
       /\ i < j /\ j < k
       /\ lexer.tokens[i].type = "METADATA_ENTRY"
       /\ lexer.tokens[j].type = "SECTION_HEAD"
       /\ lexer.tokens[k].type = "LIST_ITEM"
       /\ lexer.tokens[k].value.props # {}

====
